---- MODULE Spec2Model ----
(***************************************************************************)
(* A model of data_colors.py: Color, ConfigPoint, Dimension and            *)
(* ColorFactory (the spec's "MultiDimension"), with the class-level        *)
(* lru_cache that memoizes ColorFactory._cached_get_color.                 *)
(* Color.blend of the other revision of class Color, colors.py, is         *)
(* modelled beside it (the colors_ definitions).                           *)
(*                                                                         *)
(* Numbers.  Determiners and exponents are Python floats in the source.    *)
(* Here they are integers, and the one place where the source leaves the   *)
(* integers (the exponent remap and the blend factor of                    *)
(* Dimension.get_color) is modelled twice.  The float_ definitions         *)
(* compute the doubles of the source bit for bit; SpecFloat runs them.     *)
(* The definitions without that prefix compute the same expressions as     *)
(* fractions <<num, den>> with den > 0; they are what Spec, SpecDim and    *)
(* SpecRace run, on determiners where the two give the same results        *)
(* (DoubleArithmeticAgrees).                                               *)
(*                                                                         *)
(* Results.  Every call of the source either returns a value or raises.    *)
(* A result is a record [err, val]: err = "none" and val the returned      *)
(* value, or err the kind of the exception raised (named after the spec's  *)
(* error kinds, chosen by the raise statement) and val = <<>>.             *)
(***************************************************************************)
EXTENDS Integers, Sequences, FiniteSets, TLC

VARIABLES
    factories,  \* sequence of ColorFactory objects (records), by creation order
    cache,      \* the lru_cache of _cached_get_color, shared by all instances;
                \* least recently used entry first
    last,       \* the last call made and what it returned or raised
    pending     \* the get_color call that has compared the fingerprint and
                \* has not yet called _cached_get_color, if there is one

vars == <<factories, cache, last, pending>>

-----------------------------------------------------------------------------
(* Bounds of the model *)

\* Spec: the factory state machine
MaxDims == 2            \* Dimensions per factory
MaxConfigs == 2         \* ConfigPoints per Dimension
MaxPoints == 3          \* ConfigPoints per factory, all Dimensions together
\* SpecDim: one Dimension on its own
DimMaxConfigs == 3      \* ConfigPoints of the Dimension
MaxExponent == 2        \* exponents 0..MaxExponent
\* the lru_cache's maxsize (100 in the source), scaled down so that the
\* least recently used entry does get evicted
CacheMaxSize == 1

\* blend method names, data_colors.py:52-58
LERP_BLEND == "lerp"
ALPHA_BLEND == LERP_BLEND
ADDITIVE_BLEND == "additive"
SUBTRACTIVE_BLEND == "subtractive"
DIFFERENCE_BLEND == "difference"
MULTIPLICATIVE_BLEND == "multiplicative"
OVERLAY_BLEND == "overlay"

-----------------------------------------------------------------------------
(* Results *)

None == <<>>
Some(v) == <<v>>
Ok(v) == [err |-> "none", val |-> v]
Err(kind) == [err |-> kind, val |-> None]
IsOk(r) == r.err = "none"

-----------------------------------------------------------------------------
(* Arithmetic helpers *)

Min2(a, b) == IF b < a THEN b ELSE a     \* Python min(a, b)
Max2(a, b) == IF b > a THEN b ELSE a     \* Python max(a, b)
Abs(a) == IF a < 0 THEN -a ELSE a

\* Python int(n / d) for d > 0: truncation toward zero
TruncDiv(n, d) == IF n >= 0 THEN n \div d ELSE -((-n) \div d)

RECURSIVE Pow(_, _)
Pow(b, k) == IF k = 0 THEN 1 ELSE b * Pow(b, k - 1)

-----------------------------------------------------------------------------
(* class Color *)

\* Color._clamp_tuple
RECURSIVE clamp_tuple(_)
clamp_tuple(color_tuple) ==
    IF color_tuple = <<>> THEN <<>>
    ELSE <<Max2(0, Min2(255, Head(color_tuple)))>> \o clamp_tuple(Tail(color_tuple))

\* faulty variant: every tuple of three elements passes
validate_rgb_tuple_unchecked(color_tuple) == Ok(TRUE)

\* Color._validate_rgb_tuple (the later of the two definitions, which is the
\* one Python keeps): TRUE, or the exception raised
validate_rgb_tuple(color_tuple) ==
    IF Len(color_tuple) # 3 THEN Err("InvalidColor")
    ELSE IF color_tuple # clamp_tuple(color_tuple) THEN Err("InvalidColor")
    ELSE Ok(TRUE)

\* Color.__new__ on an RGB tuple
Color(color_init) ==
    IF Len(color_init) # 3 THEN Err("InvalidColor")
    ELSE IF ~IsOk(validate_rgb_tuple(color_init)) THEN validate_rgb_tuple(color_init)
    ELSE Ok(color_init)

HexDigits == <<"0", "1", "2", "3", "4", "5", "6", "7",
               "8", "9", "A", "B", "C", "D", "E", "F">>

\* faulty variant: the hexadecimal digits without the leading zero
Hex02X_unpadded(n) ==
    IF n < 16 THEN <<HexDigits[n + 1]>>
    ELSE <<HexDigits[(n \div 16) + 1], HexDigits[(n % 16) + 1]>>

\* format spec 02X: two upper-case hexadecimal digits
Hex02X(n) == <<HexDigits[(n \div 16) + 1], HexDigits[(n % 16) + 1]>>

\* Color.html_color
html_color(c) == <<"#">> \o Hex02X(c[1]) \o Hex02X(c[2]) \o Hex02X(c[3])

\* Color.blend_lerp with alpha the fraction an/ad (ad > 0)
blend_lerp(base_color, blend_color, an, ad) ==
    LET \* alpha = max(0.0, min(1.0, alpha))
        lo == an < 0
        hi == an > ad
        n == IF lo THEN 0 ELSE IF hi THEN 1 ELSE an
        d == IF lo \/ hi THEN 1 ELSE ad
        chan(k) == TruncDiv(base_color[k] * d + (blend_color[k] - base_color[k]) * n, d)
    IN Color(<<chan(1), chan(2), chan(3)>>)

\* Color.invert
invert(color) ==
    Color(clamp_tuple(<<255 - color[1], 255 - color[2], 255 - color[3]>>))

\* faulty variant: additive blending without the cap at 255
blend_additive_uncapped(base_color, blend_color) ==
    Color(<<base_color[1] + blend_color[1],
           base_color[2] + blend_color[2],
           base_color[3] + blend_color[3]>>)

\* Color._blend_additive
blend_additive(base_color, blend_color) ==
    Color(<<Min2(255, base_color[1] + blend_color[1]),
           Min2(255, base_color[2] + blend_color[2]),
           Min2(255, base_color[3] + blend_color[3])>>)

\* Color._blend_subtractive
blend_subtractive(base_color, blend_color) ==
    Color(<<Max2(0, base_color[1] - blend_color[1]),
           Max2(0, base_color[2] - blend_color[2]),
           Max2(0, base_color[3] - blend_color[3])>>)

\* Color._blend_difference
blend_difference(base_color, blend_color) ==
    Color(<<Abs(base_color[1] - blend_color[1]),
           Abs(base_color[2] - blend_color[2]),
           Abs(base_color[3] - blend_color[3])>>)

\* Color._blend_multiply
blend_multiply(base_color, blend_color) ==
    Color(<<(base_color[1] * blend_color[1]) \div 255,
           (base_color[2] * blend_color[2]) \div 255,
           (base_color[3] * blend_color[3]) \div 255>>)

overlay_channel(base, blend) ==
    IF base <= 127 THEN (2 * base * blend) \div 255
    ELSE 255 - ((2 * (255 - base) * (255 - blend)) \div 255)

\* Color._blend_overlay
blend_overlay(base_color, blend_color) ==
    Color(<<overlay_channel(base_color[1], blend_color[1]),
           overlay_channel(base_color[2], blend_color[2]),
           overlay_channel(base_color[3], blend_color[3])>>)

\* Color.blend
RECURSIVE blend(_, _)
blend(colors_list, blend_method) ==
    IF Len(colors_list) = 0 THEN Err("EmptyInput")
    ELSE IF Len(colors_list) = 1 THEN Ok(colors_list[1])
    ELSE IF Len(colors_list) > 2 THEN
        \* reduce the list by blending the first two colors
        LET first == blend(SubSeq(colors_list, 1, 2), blend_method)
        IN IF ~IsOk(first) THEN first
           ELSE blend(<<first.val>> \o SubSeq(colors_list, 3, Len(colors_list)),
                      blend_method)
    ELSE LET color1 == colors_list[1]
             color2 == colors_list[2]
         IN IF blend_method \in {LERP_BLEND, ALPHA_BLEND}
                THEN blend_lerp(color1, color2, 1, 2)
            ELSE IF blend_method = ADDITIVE_BLEND
                THEN blend_additive(color1, color2)
            ELSE IF blend_method = SUBTRACTIVE_BLEND
                THEN blend_subtractive(color1, color2)
            ELSE IF blend_method = DIFFERENCE_BLEND
                THEN blend_difference(color1, color2)
            ELSE IF blend_method = MULTIPLICATIVE_BLEND
                THEN blend_multiply(color1, color2)
            ELSE IF blend_method = OVERLAY_BLEND
                THEN blend_overlay(color1, color2)
            ELSE Err("UnknownBlendMethod")

-----------------------------------------------------------------------------
(* class ConfigPoint: a float (real) that carries a color *)

\* ConfigPoint.__new__
ConfigPoint(determiner, color) ==
    LET c == Color(color)
    IN IF ~IsOk(c) THEN c
       ELSE Ok([real |-> determiner, color |-> c.val])

-----------------------------------------------------------------------------
(* class Dimension *)

\* faulty variant: the exponent is not checked
Dimension_unchecked(interpolation_exponent) ==
    Ok([interpolation_exponent |-> interpolation_exponent,
        configs |-> <<>>,
        ready |-> FALSE,
        min |-> None,
        max |-> None,
        range |-> None])

\* Dimension.__init__
Dimension(interpolation_exponent) ==
    IF interpolation_exponent < 0 THEN Err("InvalidConfigPoint")
    ELSE Ok([interpolation_exponent |-> interpolation_exponent,
             configs |-> <<>>,
             ready |-> FALSE,
             min |-> None,
             max |-> None,
             range |-> None])

\* list.sort() on ConfigPoints, which compare as floats: a stable ascending
\* sort by .real
RECURSIVE insert_sorted(_, _)
insert_sorted(s, pt) ==
    IF s = <<>> THEN <<pt>>
    ELSE IF pt.real < s[Len(s)].real
         THEN Append(insert_sorted(SubSeq(s, 1, Len(s) - 1), pt), s[Len(s)])
         ELSE Append(s, pt)

\* faulty variant: the list left as appended
sort_skipped(s) == s

RECURSIVE sort(_)
sort(s) ==
    IF s = <<>> THEN <<>>
    ELSE insert_sorted(sort(SubSeq(s, 1, Len(s) - 1)), s[Len(s)])

\* float(min(configs)), float(max(configs)) of a non-empty list
RECURSIVE list_min(_)
list_min(s) ==
    IF Len(s) = 1 THEN s[1].real ELSE Min2(s[1].real, list_min(Tail(s)))

RECURSIVE list_max(_)
list_max(s) ==
    IF Len(s) = 1 THEN s[1].real ELSE Max2(s[1].real, list_max(Tail(s)))

\* faulty variant: a duplicate test that compares ConfigPoints with ConfigPoint.__eq__
\* (value and color): pt in self.configs
has_config_point(self, pt) ==
    \E k \in DOMAIN self.configs :
        self.configs[k].real = pt.real /\ self.configs[k].color = pt.color

\* the duplicate test of add_config: pt.real in [cp.real for cp in self.configs]
has_determiner(self, pt) ==
    \E k \in DOMAIN self.configs : self.configs[k].real = pt.real

\* faulty variant: the new point replaces the ConfigPoints already there
append_config_alone(self, pt) ==
    [self EXCEPT !.configs = <<pt>>,
                 !.min = Some(pt.real),
                 !.max = Some(pt.real),
                 !.range = Some(0),
                 !.ready = TRUE]

\* the tail of add_config, once the new point is accepted
append_config(self, pt) ==
    LET configs == sort(Append(self.configs, pt))
        mn == list_min(configs)
        mx == list_max(configs)
    IN [self EXCEPT !.configs = configs,
                    !.min = Some(mn),
                    !.max = Some(mx),
                    !.range = Some(mx - mn),
                    !.ready = TRUE]

\* faulty variant: add_config that marks the Dimension not ready while it works and
\* raises on a duplicate before marking it ready again
add_config_unready(self, determiner, color) ==
    LET pt == ConfigPoint(determiner, color)
    IN IF ~IsOk(pt) THEN [result |-> pt, self |-> self]
       ELSE IF has_determiner(self, pt.val)
            THEN [result |-> Err("InvalidConfigPoint"),
                  self |-> [self EXCEPT !.ready = FALSE]]
       ELSE [result |-> Ok(None), self |-> append_config(self, pt.val)]

\* Dimension.add_config: [result, self], self being the Dimension afterwards
add_config(self, determiner, color) ==
    LET pt == ConfigPoint(determiner, color)
    IN IF ~IsOk(pt) THEN [result |-> pt, self |-> self]
       ELSE IF has_determiner(self, pt.val)
            THEN [result |-> Err("InvalidConfigPoint"), self |-> self]
       ELSE [result |-> Ok(None), self |-> append_config(self, pt.val)]

\* the exponent remap of get_color, as the fraction <<num, den>>:
\* min + (determiner_range ** e) * (range ** (1 - e))
adjusted_determiner(mn, rg, determiner_range, e) ==
    LET num == IF 1 - e >= 0
               THEN Pow(determiner_range, e) * Pow(rg, 1 - e)
               ELSE Pow(determiner_range, e)
        den == IF 1 - e >= 0 THEN 1 ELSE Pow(rg, e - 1)
    IN <<mn * den + num, den>>

\* the bracket scan of get_color: the first j (counted from 1) with
\* adjusted <= configs[j + 1], or 0 when the loop ends without a break
RECURSIVE find_gradient(_, _, _)
find_gradient(configs, adjusted, j) ==
    IF j > Len(configs) - 1 THEN 0
    ELSE IF adjusted[1] <= configs[j + 1].real * adjusted[2] THEN j
    ELSE find_gradient(configs, adjusted, j + 1)

\* faulty variant: the determiner taken as given
clamp_skipped(mn, mx, determiner) == determiner

\* the clamp of get_color: max(self.min, min(self.max, determiner))
clamp(mn, mx, determiner) == Max2(mn, Min2(mx, determiner))

\* Dimension.get_color from the clamp on, for a Dimension whose range is > 0
interpolate(self, determiner) ==
        LET mn == self.min[1]
            mx == self.max[1]
            clamped == clamp(mn, mx, determiner)
            determiner_range == clamped - mn
            adjusted == adjusted_determiner(mn, self.range[1], determiner_range,
                                            self.interpolation_exponent)
            j == find_gradient(self.configs, adjusted, 1)
        IN IF j = 0 THEN Err("UnboundLocalError")   \* gradient_min never bound
           ELSE
            LET gradient_min == self.configs[j]
                gradient_max == self.configs[j + 1]
                width == gradient_max.real - gradient_min.real
                \* blend_factor = (adjusted - gradient_min) / (gradient_max - gradient_min)
                bn == adjusted[1] - gradient_min.real * adjusted[2]
                bd == adjusted[2] * width
            IN IF gradient_min.real = gradient_max.real
                   THEN Err("DegenerateGradient")
               ELSE IF bd < 0
                   THEN blend_lerp(gradient_min.color, gradient_max.color, -bn, -bd)
               ELSE blend_lerp(gradient_min.color, gradient_max.color, bn, bd)

\* faulty variant: get_color without the early return for a Dimension of range 0
Dimension_get_color_always_interpolates(self, determiner) ==
    IF self.range = None THEN Err("TypeError")
    ELSE interpolate(self, determiner)

\* Dimension.get_color
Dimension_get_color(self, determiner) ==
    IF self.range = None THEN Err("TypeError")      \* None <= 0
    ELSE IF self.range[1] <= 0 THEN Ok(self.configs[1].color)
    ELSE interpolate(self, determiner)

-----------------------------------------------------------------------------
(* class ColorFactory *)

\* ColorFactory.__init__
ColorFactory(blend_method) ==
    [blend_method |-> blend_method,
     dimensions |-> <<>>,
     config_hash |-> [kind |-> "int", of |-> <<0>>]]

\* ColorFactory.num_dimensions
num_dimensions(self) == Len(self.dimensions)

\* ColorFactory.ready
ready(self) ==
    IF self.dimensions # <<>>
    THEN \A i \in DOMAIN self.dimensions : self.dimensions[i].ready
    ELSE FALSE

\* conlist of unload: [[con.real, con.color.html_color], ...]
RECURSIVE unload_configs(_)
unload_configs(configs) ==
    IF configs = <<>> THEN <<>>
    ELSE <<<<Head(configs).real, html_color(Head(configs).color)>>>>
         \o unload_configs(Tail(configs))

\* dimlist of unload: [[dim.interpolation_exponent, conlist], ...]
RECURSIVE unload_dimensions(_)
unload_dimensions(dimensions) ==
    IF dimensions = <<>> THEN <<>>
    ELSE <<<<Head(dimensions).interpolation_exponent,
             unload_configs(Head(dimensions).configs)>>>>
         \o unload_dimensions(Tail(dimensions))

\* ColorFactory.unload
unload(self) == <<self.blend_method, unload_dimensions(self.dimensions)>>

\* ColorFactory._get_hash: hash(str(unload())).  str of the nested list is
\* one-to-one on the lists unload builds, and hash is taken to be free of
\* collisions on them; the initial _config_hash, the int 0, is no such hash.
get_hash(self) == [kind |-> "hash", of |-> unload(self)]

\* faulty variant: the loop of _cached_get_color reading the tuple from its end
RECURSIVE dimension_colors_reversed(_, _, _)
dimension_colors_reversed(dimensions, determiner_tuple, i) ==
    IF i > Len(dimensions) THEN Ok(<<>>)
    ELSE LET c == Dimension_get_color(dimensions[i],
                                      determiner_tuple[Len(dimensions) + 1 - i])
         IN IF ~IsOk(c) THEN c
            ELSE LET rest == dimension_colors_reversed(dimensions, determiner_tuple, i + 1)
                 IN IF ~IsOk(rest) THEN rest ELSE Ok(<<c.val>> \o rest.val)

\* the loop of _cached_get_color: one color per Dimension, in order; the
\* first exception raised by a Dimension ends it
RECURSIVE dimension_colors(_, _, _)
dimension_colors(dimensions, determiner_tuple, i) ==
    IF i > Len(dimensions) THEN Ok(<<>>)
    ELSE LET c == Dimension_get_color(dimensions[i], determiner_tuple[i])
         IN IF ~IsOk(c) THEN c
            ELSE LET rest == dimension_colors(dimensions, determiner_tuple, i + 1)
                 IN IF ~IsOk(rest) THEN rest ELSE Ok(<<c.val>> \o rest.val)

\* faulty variant: _cached_get_color that checks the tuple's length first
cached_get_color_arity_first(self, determiner_tuple) ==
    IF Len(determiner_tuple) # Len(self.dimensions)
        THEN Err("DimensionArityMismatch")
    ELSE IF ~ready(self) THEN Err("NotReady")
    ELSE LET colors_list == dimension_colors(self.dimensions, determiner_tuple, 1)
         IN IF ~IsOk(colors_list) THEN colors_list
            ELSE blend(colors_list.val, self.blend_method)

\* faulty variant: _cached_get_color that only rejects tuples that are too short
cached_get_color_short_only(self, determiner_tuple) ==
    IF ~ready(self) THEN Err("NotReady")
    ELSE IF Len(determiner_tuple) < Len(self.dimensions)
        THEN Err("DimensionArityMismatch")
    ELSE LET colors_list == dimension_colors(self.dimensions, determiner_tuple, 1)
         IN IF ~IsOk(colors_list) THEN colors_list
            ELSE blend(colors_list.val, self.blend_method)

\* the body of ColorFactory._cached_get_color, without the memoization
cached_get_color(self, determiner_tuple) ==
    IF ~ready(self) THEN Err("NotReady")
    ELSE IF Len(determiner_tuple) # num_dimensions(self)
        THEN Err("DimensionArityMismatch")
    ELSE LET colors_list == dimension_colors(self.dimensions, determiner_tuple, 1)
         IN IF ~IsOk(colors_list) THEN colors_list
            ELSE blend(colors_list.val, self.blend_method)

(* functools.lru_cache(maxsize) around _cached_get_color.  The key is the    *)
(* argument tuple (self, determiner_tuple); self hashes by identity, which   *)
(* is its index in `factories`.                                              *)

\* faulty variant: the key is never found
lru_find_nothing(c, key) == 0

\* faulty variant: a key that leaves self out, so that instances share entries
lru_find_any_instance(c, key) ==
    IF \E k \in DOMAIN c : c[k].key[2] = key[2]
    THEN CHOOSE k \in DOMAIN c : c[k].key[2] = key[2]
    ELSE 0

\* position of key in the cache, 0 if absent
lru_find(c, key) ==
    IF \E k \in DOMAIN c : c[k].key = key
    THEN CHOOSE k \in DOMAIN c : c[k].key = key
    ELSE 0

remove_at(c, k) == SubSeq(c, 1, k - 1) \o SubSeq(c, k + 1, Len(c))

\* a hit moves the entry to the most recently used end
lru_touch(c, k) == Append(remove_at(c, k), c[k])

\* a miss that returned stores the result, evicting the least recently used
\* entry of a full cache
lru_store(c, key, value) ==
    LET entry == [key |-> key, value |-> value]
    IN IF Len(c) >= CacheMaxSize THEN Append(Tail(c), entry)
       ELSE Append(c, entry)

\* the memoized call self._cached_get_color(determiner_tuple) of factory f:
\* [result, cache, hit]
lru_call(c, f, self, determiner_tuple) ==
    LET key == <<f, determiner_tuple>>
        k == lru_find(c, key)
    IN IF k # 0
       THEN [result |-> Ok(c[k].value), cache |-> lru_touch(c, k), hit |-> TRUE]
       ELSE LET r == cached_get_color(self, determiner_tuple)
            IN [result |-> r,
                cache |-> IF IsOk(r) THEN lru_store(c, key, r.val) ELSE c,
                hit |-> FALSE]

\* faulty variant: a cache_clear that clears nothing
cache_clear_skipped(c) == c

\* _cached_get_color.cache_clear(): empties the cache, for every instance
cache_clear(c) == <<>>

-----------------------------------------------------------------------------
(* Inputs of the calls *)

\* Spec
BlendMethods == {ADDITIVE_BLEND, SUBTRACTIVE_BLEND, "nosuch"}
Exponents == {1, 2}
BadExponents == {-1}
\* add_config(determiner, color): anchors every 100, alternately
\* (100,0,0) and (0,100,0)
AnchorColor(k) == IF k % 2 = 0 THEN <<100, 0, 0>> ELSE <<0, 100, 0>>
ConfigInputs == {<<100 * k, AnchorColor(k)>> : k \in 0..(MaxConfigs - 1)}
QueryDeterminers == {50, 150}
\* every tuple over QueryDeterminers of n components
RECURSIVE Tuples(_)
Tuples(n) ==
    IF n = 0 THEN {<<>>}
    ELSE {Append(t, d) : t \in Tuples(n - 1), d \in QueryDeterminers}
\* get_color(*q): the tuples (d, .., d) of 1 to MaxDims components, the tuple
\* (50, 150, 50, ..) of MaxDims components, the empty tuple and one tuple that
\* is too long for any factory
Queries == {[k \in 1..n |-> d] : n \in 1..MaxDims, d \in QueryDeterminers}
           \cup {[k \in 1..MaxDims |-> IF k % 2 = 1 THEN 50 ELSE 150]}
           \cup {<<>>, [k \in 1..(MaxDims + 1) |-> 50]}

\* SpecDim
DimExponents == 0..MaxExponent
DimDeterminers == {50 * k : k \in 0..(DimMaxConfigs - 1)}
DimPalette == {<<0, 0, 0>>, <<255, 255, 255>>, <<100, 0, 0>>}
BadColors == {<<0, 0, 256>>, <<0, 0>>}
DimQueries == {25 * k - 50 : k \in 0..(2 * DimMaxConfigs + 2)}

-----------------------------------------------------------------------------
(* The calls *)

\* `last`: the call op on factory f (and its Dimension i, or 0), with the
\* numeric arguments q and the color argument (or <<>>), its result, whether
\* the lru_cache answered it, and the value the cache held for the same key
\* when this call cleared it (or None)
Call(op, f, i, q, color, result, hit, dropped) ==
    [op |-> op, f |-> f, i |-> i, q |-> q, color |-> color, result |-> result,
     hit |-> hit, dropped |-> dropped]

\* factory = ColorFactory(blend_method)
Init ==
    /\ \E m \in BlendMethods : factories = <<ColorFactory(m)>>
    /\ cache = <<>>
    /\ last = Call("ColorFactory", 1, 0, <<>>, <<>>, Ok(None), FALSE, None)
    /\ pending = None

\* factories[f].add_dimension(e)
AddDimension(f, e) ==
    LET self == factories[f]
        d == Dimension(e)
    IN /\ Len(self.dimensions) < MaxDims
       /\ factories' = IF IsOk(d)
                       THEN [factories EXCEPT ![f].dimensions = Append(@, d.val)]
                       ELSE factories
       /\ last' = Call("add_dimension", f, 0, <<e>>, <<>>,
                       IF IsOk(d) THEN Ok(Some(Len(self.dimensions) + 1)) ELSE d,
                       FALSE, None)
       /\ UNCHANGED <<cache, pending>>

\* factories[f].dimensions[i].add_config(determiner, color), bounded by max
\* ConfigPoints per Dimension (a call that raises is never held back)
AddConfigTo(f, i, determiner, color, max) ==
    LET self == factories[f].dimensions[i]
        r == add_config(self, determiner, color)
    IN /\ Len(self.configs) < max \/ ~IsOk(r.result)
       /\ factories' = [factories EXCEPT ![f].dimensions[i] = r.self]
       /\ last' = Call("add_config", f, i, <<determiner>>, color, r.result, FALSE, None)
       /\ UNCHANGED <<cache, pending>>

RECURSIVE num_points(_)
num_points(dimensions) ==
    IF dimensions = <<>> THEN 0
    ELSE Len(Head(dimensions).configs) + num_points(Tail(dimensions))

AddConfig(f, i, determiner, color) ==
    AddConfigTo(f, i, determiner, color,
                IF num_points(factories[f].dimensions) < MaxPoints
                THEN MaxConfigs ELSE 0)

\* factories[f].blend_method = m
SetBlendMethod(f, m) ==
    /\ factories[f].blend_method # m
    /\ factories' = [factories EXCEPT ![f].blend_method = m]
    /\ last' = Call("blend_method", f, 0, <<>>, <<>>, Ok(None), FALSE, None)
    /\ UNCHANGED <<cache, pending>>

\* factories[f].dimensions[i].interpolation_exponent = e
SetExponent(f, i, e) ==
    /\ factories[f].dimensions[i].interpolation_exponent # e
    /\ factories' = [factories EXCEPT ![f].dimensions[i].interpolation_exponent = e]
    /\ last' = Call("interpolation_exponent", f, i, <<e>>, <<>>, Ok(None), FALSE, None)
    /\ UNCHANGED <<cache, pending>>

\* factories[f].get_color(*q)
GetColor(f, q) ==
    LET self == factories[f]
        current_config_hash == get_hash(self)
        changed == current_config_hash # self.config_hash
        checked == IF changed THEN cache_clear(cache) ELSE cache
        call == lru_call(checked, f, self, q)
        k == lru_find(cache, <<f, q>>)
    IN /\ factories' = IF changed
                       THEN [factories EXCEPT ![f].config_hash = current_config_hash]
                       ELSE factories
       /\ cache' = call.cache
       /\ last' = Call("get_color", f, 0, q, <<>>, call.result, call.hit,
                       IF k # 0 /\ changed THEN Some(cache[k].value) ELSE None)
       /\ UNCHANGED pending

\* factories[f].dimensions[i].get_color(determiner), through the handle
\* add_dimension returned
DimGetColor(f, i, determiner) ==
    /\ last' = Call("Dimension.get_color", f, i, <<determiner>>, <<>>,
                    Dimension_get_color(factories[f].dimensions[i], determiner),
                    FALSE, None)
    /\ UNCHANGED <<factories, cache, pending>>

Next ==
    \E f \in DOMAIN factories :
        \/ \E e \in Exponents \cup BadExponents : AddDimension(f, e)
        \/ \E i \in DOMAIN factories[f].dimensions, dc \in ConfigInputs :
              AddConfig(f, i, dc[1], dc[2])
        \/ \E m \in BlendMethods : SetBlendMethod(f, m)
        \/ \E i \in DOMAIN factories[f].dimensions, e \in Exponents :
              SetExponent(f, i, e)
        \/ \E q \in Queries : GetColor(f, q)

Spec == Init /\ [][Next]_vars

(* One Dimension on its own: d = factory.add_dimension(e), then calls on d *)

DimInit ==
    /\ \E e \in DimExponents :
          factories = <<[ColorFactory(LERP_BLEND) EXCEPT
                            !.dimensions = <<Dimension(e).val>>]>>
    /\ cache = <<>>
    /\ last = Call("add_dimension", 1, 0, <<>>, <<>>, Ok(Some(1)), FALSE, None)
    /\ pending = None

DimAddConfig(determiner, color) ==
    AddConfigTo(1, 1, determiner, color, DimMaxConfigs)

DimNext ==
    \/ \E d \in DimDeterminers, c \in DimPalette \cup BadColors : DimAddConfig(d, c)
    \/ \E d \in DimQueries : DimGetColor(1, 1, d)

SpecDim == DimInit /\ [][DimNext]_vars

-----------------------------------------------------------------------------
(* Properties of the factory (Spec) *)

\* the factory the last call was made on
Fac == factories[last.f]

SupportedBlendMethods ==
    {LERP_BLEND, ADDITIVE_BLEND, SUBTRACTIVE_BLEND, DIFFERENCE_BLEND,
     MULTIPLICATIVE_BLEND, OVERLAY_BLEND}

\* C1: cache coherence.  Whatever configuration changes (add_dimension,
\* add_config, a new blend method, a new exponent) and get_color calls came
\* before, a get_color that returns, returns the Color that the uncached
\* computation gives on the configuration as it is now.
C1_CacheCoherence ==
    (last.op = "get_color" /\ IsOk(last.result))
        => last.result = cached_get_color(Fac, last.q)

\* C1 witness: get_color returned a Color although, when it was called, the
\* cache still held another Color for the same tuple, memoized under an
\* earlier configuration.
C1_Witness ==
    /\ last.op = "get_color"
    /\ IsOk(last.result)
    /\ last.dropped # None
    /\ last.dropped # Some(last.result.val)

\* C2 as stated: a Ready factory is Ready after every further call.
C2_ReadyForever ==
    [][\A f \in DOMAIN factories : ready(factories[f]) => ready(factories[f])']_vars

\* C2 amended: a Ready factory stays Ready through every call that adds no
\* Dimension (add_config, get_color, a change of blend method or exponent, a
\* failed add_dimension); a factory that has a Dimension never goes back to
\* having none, and a Dimension that is ready stays ready.
C2_ReadyUnlessDimensionAdded ==
    [][\A f \in DOMAIN factories :
          /\ (ready(factories[f])
                /\ Len(factories[f].dimensions') = Len(factories[f].dimensions))
             => ready(factories[f])'
          /\ Len(factories[f].dimensions') >= Len(factories[f].dimensions)
          /\ \A i \in DOMAIN factories[f].dimensions :
                factories[f].dimensions[i].ready => factories[f].dimensions[i].ready'
      ]_vars

\* C2 witness: add_config has just succeeded on a Dimension that already had
\* a ConfigPoint, in a factory that was Ready before the call and is now.
C2_Witness ==
    /\ last.op = "add_config"
    /\ IsOk(last.result)
    /\ ready(Fac)
    /\ Len(Fac.dimensions) = 2
    /\ Len(Fac.dimensions[last.i].configs) = 2

\* C5: get_color on a factory that is not Ready (no Dimension, or a Dimension
\* without ConfigPoint) raises NotReady, whatever the length of the tuple.
C5_NotReady ==
    (last.op = "get_color" /\ ~ready(Fac)) => last.result = Err("NotReady")

\* C5 witness: NotReady for a tuple of the wrong length, on a factory that
\* has Dimensions, one of them empty, and that had answered this very tuple
\* before the empty Dimension was added.
C5_Witness ==
    /\ last.op = "get_color"
    /\ last.result = Err("NotReady")
    /\ Fac.dimensions # <<>>
    /\ Len(last.q) # num_dimensions(Fac)
    /\ last.dropped # None

PerDimension(self, t) ==
    [i \in 1..Len(self.dimensions) |-> Dimension_get_color(self.dimensions[i], t[i]).val]

\* C7: on a Ready factory, get_color of a tuple of the right length is
\* Color.blend, with the factory's blend method, of the Dimensions' colors
\* for their components, in insertion order; when every Dimension has one
\* ConfigPoint every tuple of that length gets the same result, and anchors
\* (100,0,0) and (0,100,0) blend additively to (100,100,0).
C7_BlendOfDimensions ==
    (last.op = "get_color" /\ ready(Fac) /\ Len(last.q) = num_dimensions(Fac))
        => /\ last.result = blend(PerDimension(Fac, last.q), Fac.blend_method)
           /\ (\A i \in DOMAIN Fac.dimensions : Len(Fac.dimensions[i].configs) = 1)
                => /\ \A t \in Tuples(num_dimensions(Fac)) :
                         cached_get_color(Fac, t) = last.result
                   /\ (/\ Fac.blend_method = ADDITIVE_BLEND
                       /\ num_dimensions(Fac) = 2
                       /\ Fac.dimensions[1].configs[1].color = <<100, 0, 0>>
                       /\ Fac.dimensions[2].configs[1].color = <<0, 100, 0>>)
                      => last.result = Ok(<<100, 100, 0>>)

\* C7 witness: a tuple with two different components on two Dimensions, the
\* first with two ConfigPoints, blended subtractively.
C7_Witness ==
    /\ last.op = "get_color"
    /\ IsOk(last.result)
    /\ num_dimensions(Fac) = 2
    /\ Len(Fac.dimensions[1].configs) = 2
    /\ Fac.blend_method = SUBTRACTIVE_BLEND
    /\ last.q = <<50, 150>>

-----------------------------------------------------------------------------
(* Properties of a Dimension (SpecDim) *)

\* the Dimension the last call was made on
LastDim == factories[last.f].dimensions[last.i]

\* the color of the ConfigPoint of d whose determiner is real
AnchorColor_at(d, real) ==
    d.configs[CHOOSE k \in DOMAIN d.configs : d.configs[k].real = real].color

DimensionInvariant(d) ==
    /\ \A k \in 1..(Len(d.configs) - 1) : d.configs[k].real < d.configs[k + 1].real
    /\ d.ready <=> Len(d.configs) >= 1
    /\ Len(d.configs) >= 1 =>
          /\ d.min # None /\ d.max # None /\ d.range # None
          /\ \E k \in DOMAIN d.configs : d.configs[k].real = d.min[1]
          /\ \A k \in DOMAIN d.configs : d.min[1] <= d.configs[k].real
          /\ \E k \in DOMAIN d.configs : d.configs[k].real = d.max[1]
          /\ \A k \in DOMAIN d.configs : d.configs[k].real <= d.max[1]
          /\ d.range[1] = d.max[1] - d.min[1]

\* C3: whatever add_config calls were made, successful or failed, a
\* Dimension's ConfigPoints are in strictly ascending order of determiner,
\* min is the lowest and max the highest determiner, range is max - min, and
\* the Dimension is ready exactly when it has a ConfigPoint.
C3_DimensionInvariant ==
    \A f \in DOMAIN factories : \A i \in DOMAIN factories[f].dimensions :
        DimensionInvariant(factories[f].dimensions[i])

\* C3 witness: a Dimension with the most ConfigPoints the model gives it, on
\* which an add_config has just failed.
C3_Witness ==
    /\ last.op = "add_config"
    /\ ~IsOk(last.result)
    /\ Len(LastDim.configs) >= 3

\* C4: add_config with a Color and a determiner the Dimension already has
\* raises InvalidConfigPoint and changes nothing.
C4_DuplicateRejected ==
    [][(/\ last'.op = "add_config"
        /\ IsOk(Color(last'.color))
        /\ \E k \in DOMAIN factories[last'.f].dimensions[last'.i].configs :
              factories[last'.f].dimensions[last'.i].configs[k].real = last'.q[1])
       => /\ last'.result = Err("InvalidConfigPoint")
          /\ factories' = factories
          /\ cache' = cache
      ]_vars

\* C4 witness: add_config was refused for a determiner whose ConfigPoint has
\* another color than the one offered.
C4_Witness ==
    /\ last.op = "add_config"
    /\ last.result = Err("InvalidConfigPoint")
    /\ AnchorColor_at(LastDim, last.q[1]) # last.color

\* C8: a Dimension with one ConfigPoint (v, c) answers c to every determiner,
\* whatever its exponent.
C8_SinglePoint ==
    (last.op = "Dimension.get_color" /\ Len(LastDim.configs) = 1)
        => last.result = Ok(LastDim.configs[1].color)

\* C8 witness: a query well below the only ConfigPoint, with exponent 0.
C8_Witness ==
    /\ last.op = "Dimension.get_color"
    /\ Len(LastDim.configs) = 1
    /\ IsOk(last.result)
    /\ last.q[1] + 100 <= LastDim.configs[1].real
    /\ LastDim.interpolation_exponent = 0

\* C9: with two or more ConfigPoints, a determiner at or below min gets what
\* min gets and one at or above max what max gets; with exponent 1 that is
\* the color of the lowest, respectively the highest, ConfigPoint.
C9_Clamping ==
    (last.op = "Dimension.get_color" /\ Len(LastDim.configs) >= 2)
        => /\ last.q[1] <= LastDim.min[1]
                => /\ last.result = Dimension_get_color(LastDim, LastDim.min[1])
                   /\ LastDim.interpolation_exponent = 1
                        => last.result = Ok(AnchorColor_at(LastDim, LastDim.min[1]))
           /\ last.q[1] >= LastDim.max[1]
                => /\ last.result = Dimension_get_color(LastDim, LastDim.max[1])
                   /\ LastDim.interpolation_exponent = 1
                        => last.result = Ok(AnchorColor_at(LastDim, LastDim.max[1]))

\* C9 witness: a determiner above max answered with the color of the highest
\* ConfigPoint, which is not the color of the lowest.
C9_Witness ==
    /\ last.op = "Dimension.get_color"
    /\ Len(LastDim.configs) >= 2
    /\ last.q[1] > LastDim.max[1]
    /\ LastDim.interpolation_exponent = 1
    /\ last.result = Ok(AnchorColor_at(LastDim, LastDim.max[1]))
    /\ AnchorColor_at(LastDim, LastDim.max[1]) # AnchorColor_at(LastDim, LastDim.min[1])

\* C10: with two or more ConfigPoints and any exponent >= 0, get_color(min)
\* is the color of the lowest ConfigPoint and get_color(max) the color of the
\* highest.
C10_EndAnchorsFixed ==
    (last.op = "Dimension.get_color" /\ Len(LastDim.configs) >= 2)
        => /\ last.q[1] = LastDim.min[1]
                => last.result = Ok(AnchorColor_at(LastDim, LastDim.min[1]))
           /\ last.q[1] = LastDim.max[1]
                => last.result = Ok(AnchorColor_at(LastDim, LastDim.max[1]))

\* what the source does give: the end anchors are fixed for every exponent
\* >= 1, and get_color(max) is the highest anchor's color for exponent 0 too
EndAnchorsFixedFromOne ==
    (last.op = "Dimension.get_color" /\ Len(LastDim.configs) >= 2)
        => /\ (last.q[1] = LastDim.min[1] /\ LastDim.interpolation_exponent >= 1)
                => last.result = Ok(AnchorColor_at(LastDim, LastDim.min[1]))
           /\ last.q[1] = LastDim.max[1]
                => last.result = Ok(AnchorColor_at(LastDim, LastDim.max[1]))

-----------------------------------------------------------------------------
(* colors.py: the other revision of class Color in the repository.  Its     *)
(* colors are plain RGB tuples; its blend names are class attributes.       *)

colors_ALPHA_BLEND == "alpha"

\* colors.Color._clamp
colors_clamp(color_tuple) == clamp_tuple(color_tuple)

\* colors.Color._blend_alpha: alpha is the fourth element of blend_color
colors_blend_alpha(base_color, blend_color) ==
    IF Len(blend_color) < 4 THEN Err("IndexError")
    ELSE LET chan(k) == TruncDiv(base_color[k] * 255
                                 + (blend_color[k] - base_color[k]) * blend_color[4],
                                 255)
         IN Ok(colors_clamp(<<chan(1), chan(2), chan(3)>>))

\* colors.Color._blend_additive
colors_blend_additive(base_color, blend_color) ==
    Ok(colors_clamp(<<Min2(255, base_color[1] + blend_color[1]),
                      Min2(255, base_color[2] + blend_color[2]),
                      Min2(255, base_color[3] + blend_color[3])>>))

\* colors.Color._blend_subtractive
colors_blend_subtractive(base_color, blend_color) ==
    Ok(colors_clamp(<<Max2(0, base_color[1] - blend_color[1]),
                      Max2(0, base_color[2] - blend_color[2]),
                      Max2(0, base_color[3] - blend_color[3])>>))

\* colors.Color._blend_difference (defined, and never called by blend)
colors_blend_difference(base_color, blend_color) ==
    Ok(colors_clamp(<<Abs(base_color[1] - blend_color[1]),
                      Abs(base_color[2] - blend_color[2]),
                      Abs(base_color[3] - blend_color[3])>>))

\* colors.Color._blend_multiply
colors_blend_multiply(base_color, blend_color) ==
    Ok(colors_clamp(<<(base_color[1] * blend_color[1]) \div 255,
                      (base_color[2] * blend_color[2]) \div 255,
                      (base_color[3] * blend_color[3]) \div 255>>))

\* colors.Color._blend_overlay
colors_blend_overlay(base_color, blend_color) ==
    Ok(colors_clamp(<<overlay_channel(base_color[1], blend_color[1]),
                      overlay_channel(base_color[2], blend_color[2]),
                      overlay_channel(base_color[3], blend_color[3])>>))

\* the body of the loop of colors.Color.blend: one color blended onto result
colors_blend_step(result, color, blend_method) ==
    IF blend_method = colors_ALPHA_BLEND THEN colors_blend_alpha(result, color)
    ELSE IF blend_method = ADDITIVE_BLEND THEN colors_blend_additive(result, color)
    ELSE IF blend_method = SUBTRACTIVE_BLEND THEN colors_blend_subtractive(result, color)
    ELSE IF blend_method = DIFFERENCE_BLEND THEN colors_blend_subtractive(result, color)
    ELSE IF blend_method = MULTIPLICATIVE_BLEND THEN colors_blend_multiply(result, color)
    ELSE IF blend_method = OVERLAY_BLEND THEN colors_blend_overlay(result, color)
    ELSE Err("UnknownBlendMethod")

\* the loop of colors.Color.blend: `for color in colors`, from `result`
RECURSIVE colors_blend_loop(_, _, _)
colors_blend_loop(result, colors, blend_method) ==
    IF colors = <<>> THEN Ok(result)
    ELSE LET step == colors_blend_step(result, Head(colors), blend_method)
         IN IF ~IsOk(step) THEN step
            ELSE colors_blend_loop(step.val, Tail(colors), blend_method)

\* colors.Color.blend; a blend_method that is false ("" here) means alpha
colors_blend(colors, blend_method) ==
    LET method == IF blend_method = "" THEN colors_ALPHA_BLEND ELSE blend_method
    IN IF Len(colors) = 0 THEN Err("EmptyInput")
       ELSE IF Len(colors) = 1 THEN Ok(colors[1])
       ELSE colors_blend_loop(<<0, 0, 0>>, colors, method)

-----------------------------------------------------------------------------
(* Color.blend on its own, in both revisions *)

MaxBlendLen == 3        \* colors in a list handed to blend

BlendPalette == {<<200, 100, 50>>, <<30, 150, 60>>, <<10, 10, 10>>, <<255, 255, 255>>}

RECURSIVE ColorLists(_)
ColorLists(n) ==
    IF n = 0 THEN {<<>>}
    ELSE ColorLists(n - 1)
         \cup {Append(l, c) : l \in {x \in ColorLists(n - 1) : Len(x) = n - 1},
                              c \in BlendPalette}

AllBlendMethods == SupportedBlendMethods \cup {"nosuch"}

\* `last` for a call of a static method: the revision (module) called, the
\* arguments and the result
StaticCall(op, module, colors, method, result) ==
    [op |-> op, module |-> module, colors |-> colors, method |-> method,
     result |-> result]

\* no factory exists; the arguments of one call of Color.blend are chosen
BlendInit ==
    /\ factories = <<>>
    /\ cache = <<>>
    /\ \E l \in ColorLists(MaxBlendLen), m \in AllBlendMethods :
            last = StaticCall("arguments", "", l, m, Ok(None))
    /\ pending = None

\* data_colors.Color.blend(colors_list, blend_method) on the chosen arguments
Blend ==
    /\ last.op = "arguments"
    /\ last' = StaticCall("Color.blend", "data_colors", last.colors, last.method,
                          blend(last.colors, last.method))
    /\ UNCHANGED <<factories, cache, pending>>

\* colors.Color.blend(colors, blend_method) on the chosen arguments
ColorsBlend ==
    /\ last.op = "arguments"
    /\ last' = StaticCall("Color.blend", "colors", last.colors, last.method,
                          colors_blend(last.colors, last.method))
    /\ UNCHANGED <<factories, cache, pending>>

BlendNext ==
    \/ Blend
    \/ ColorsBlend

SpecBlend == BlendInit /\ [][BlendNext]_vars

-----------------------------------------------------------------------------
(* Properties of Color.blend (SpecBlend) *)

\* the pairwise primitive the spec selects for a method, on channel values
Primitive(method, base, b) ==
    IF method = LERP_BLEND THEN TruncDiv(2 * base + (b - base), 2)
    ELSE IF method = ADDITIVE_BLEND THEN Min2(255, base + b)
    ELSE IF method = SUBTRACTIVE_BLEND THEN Max2(0, base - b)
    ELSE IF method = DIFFERENCE_BLEND THEN Abs(base - b)
    ELSE IF method = MULTIPLICATIVE_BLEND THEN (base * b) \div 255
    ELSE overlay_channel(base, b)

Primitive3(method, c1, c2) ==
    <<Primitive(method, c1[1], c2[1]), Primitive(method, c1[2], c2[2]),
      Primitive(method, c1[3], c2[3])>>

\* prim(...prim(prim(c1, c2), c3)..., cn), with acc the fold so far
RECURSIVE LeftFold(_, _, _)
LeftFold(method, acc, rest) ==
    IF rest = <<>> THEN acc
    ELSE LeftFold(method, Primitive3(method, acc, Head(rest)), Tail(rest))

\* what C11 states of one call of blend
BlendContract(c) ==
    IF Len(c.colors) = 0 THEN c.result = Err("EmptyInput")
    ELSE IF Len(c.colors) = 1 THEN c.result = Ok(c.colors[1])
    ELSE c.method \in SupportedBlendMethods
         => c.result = Ok(LeftFold(c.method, Head(c.colors), Tail(c.colors)))

\* C11: Color.blend fails with EmptyInput on an empty list, returns the sole
\* element of a one-element list, and on a longer list with a supported
\* method is the left-to-right fold of the method's primitive (lerp at 1/2),
\* in every revision of Color.blend.
C11_BlendIsLeftFold ==
    last.op = "Color.blend" => BlendContract(last)

\* the same statement of the data_colors revision alone
BlendIsLeftFold_data_colors ==
    (last.op = "Color.blend" /\ last.module = "data_colors") => BlendContract(last)

\* C12: Color.blend (data_colors) with a method outside the supported set
\* fails with UnknownBlendMethod for every non-empty list of colours, a list
\* of one colour included.
C12_UnknownMethodFails ==
    (/\ last.op = "Color.blend"
     /\ last.module = "data_colors"
     /\ last.method \notin SupportedBlendMethods
     /\ Len(last.colors) >= 1)
    => last.result = Err("UnknownBlendMethod")

\* the same statement of lists of two or more colours
UnknownMethodFailsFromTwo ==
    (/\ last.op = "Color.blend"
     /\ last.module = "data_colors"
     /\ last.method \notin SupportedBlendMethods
     /\ Len(last.colors) >= 2)
    => last.result = Err("UnknownBlendMethod")

\* what C13 states of one call of blend on two colours
DistinctFormulas(c) ==
    LET base == c.colors[1]
        b == c.colors[2]
    IN /\ c.method = SUBTRACTIVE_BLEND
            => c.result = Ok(<<Max2(0, base[1] - b[1]), Max2(0, base[2] - b[2]),
                               Max2(0, base[3] - b[3])>>)
       /\ c.method = DIFFERENCE_BLEND
            => c.result = Ok(<<Abs(base[1] - b[1]), Abs(base[2] - b[2]),
                               Abs(base[3] - b[3])>>)

\* C13: in every revision of Color.blend, on two colours the method
\* "subtractive" yields max(0, base - blend) and the method "difference"
\* yields |base - blend| per channel, so that the two differ whenever a
\* blend channel exceeds the base channel.
C13_SubtractiveAndDifferenceDistinct ==
    (last.op = "Color.blend" /\ Len(last.colors) = 2) => DistinctFormulas(last)

\* the same statement of the data_colors revision alone
SubtractiveAndDifferenceDistinct_data_colors ==
    (last.op = "Color.blend" /\ last.module = "data_colors" /\ Len(last.colors) = 2)
    => DistinctFormulas(last)

-----------------------------------------------------------------------------
(* Strings.  A Python str is the sequence of its characters, each a         *)
(* one-character string; the characters are those of Alphabet.              *)

DecDigits == <<"0", "1", "2", "3", "4", "5", "6", "7", "8", "9">>
LowerHexDigits == <<"0", "1", "2", "3", "4", "5", "6", "7",
                    "8", "9", "a", "b", "c", "d", "e", "f">>
UpperLetters == <<"A", "B", "C", "D", "E", "F", "G", "H", "I", "J", "K", "L", "M",
                  "N", "O", "P", "Q", "R", "S", "T", "U", "V", "W", "X", "Y", "Z">>
LowerLetters == <<"a", "b", "c", "d", "e", "f", "g", "h", "i", "j", "k", "l", "m",
                  "n", "o", "p", "q", "r", "s", "t", "u", "v", "w", "x", "y", "z">>

\* the position of character ch in seq, or 0
IndexOf(seq, ch) ==
    IF \E k \in DOMAIN seq : seq[k] = ch
        THEN CHOOSE k \in DOMAIN seq : seq[k] = ch
        ELSE 0

IsSpace(ch) == ch = " "
IsDigit(ch) == IndexOf(DecDigits, ch) # 0

\* str.lower
RECURSIVE lower(_)
lower(s) ==
    IF s = <<>> THEN <<>>
    ELSE LET k == IndexOf(UpperLetters, Head(s))
         IN <<IF k = 0 THEN Head(s) ELSE LowerLetters[k]>> \o lower(Tail(s))

RECURSIVE lstrip(_)
lstrip(s) == IF s # <<>> /\ IsSpace(Head(s)) THEN lstrip(Tail(s)) ELSE s

RECURSIVE rstrip(_)
rstrip(s) ==
    IF s # <<>> /\ IsSpace(s[Len(s)]) THEN rstrip(SubSeq(s, 1, Len(s) - 1)) ELSE s

\* str.strip
strip(s) == rstrip(lstrip(s))

\* str.startswith
startswith(s, prefix) ==
    Len(s) >= Len(prefix) /\ SubSeq(s, 1, Len(prefix)) = prefix

\* the slice s[a:b] (0 <= a <= b), which Python clips to the string
slice(s, a, b) ==
    IF a >= Len(s) THEN <<>> ELSE SubSeq(s, a + 1, Min2(b, Len(s)))

\* the value of a non-empty string of digits of the base (digits: the digit
\* characters by value)
RECURSIVE digits_value(_, _, _)
digits_value(s, digits, acc) ==
    IF s = <<>> THEN acc
    ELSE digits_value(Tail(s), digits,
                      acc * Len(digits) + (IndexOf(digits, Head(s)) - 1))

all_in(s, digits) == \A k \in DOMAIN s : IndexOf(digits, s[k]) # 0

\* int(text, 16) on a lower-case text: surrounding whitespace, one sign and
\* the prefix 0x are accepted; ValueError ("ValueError" here) otherwise
int16(text) ==
    LET t == strip(text)
        signed == t # <<>> /\ Head(t) \in {"+", "-"}
        body == IF signed THEN Tail(t) ELSE t
        digits == IF startswith(body, <<"0", "x">>) THEN SubSeq(body, 3, Len(body))
                  ELSE body
    IN IF digits = <<>> \/ ~all_in(digits, LowerHexDigits) THEN Err("ValueError")
       ELSE LET v == digits_value(digits, LowerHexDigits, 0)
            IN Ok(IF signed /\ Head(t) = "-" THEN -v ELSE v)

\* int(text) on a string of decimal digits (a group of _rgb_pattern)
int10(text) == digits_value(text, DecDigits, 0)

\* the decimal digits of n >= 0, as format() writes them
RECURSIVE decimal(_)
decimal(n) ==
    IF n < 10 THEN <<DecDigits[n + 1]>>
    ELSE decimal(n \div 10) \o <<DecDigits[(n % 10) + 1]>>

-----------------------------------------------------------------------------
(* class Color: construction from a str, and the str forms of a Color *)

\* color_names.COLOR_NAMES: name -> RGB tuple, in the order of the dict.  The
\* module is not part of the sources; this is a table of a few entries of
\* that shape, two names with one RGB value among them.
COLOR_NAMES ==
    << <<<<"a", "q", "u", "a">>, <<0, 255, 255>>>>,
       <<<<"b", "l", "a", "c", "k">>, <<0, 0, 0>>>>,
       <<<<"c", "y", "a", "n">>, <<0, 255, 255>>>>,
       <<<<"r", "e", "d">>, <<255, 0, 0>>>>,
       <<<<"w", "h", "i", "t", "e">>, <<255, 255, 255>>>> >>

\* `name in table`, as the position of the entry, or 0
name_index(table, name) ==
    IF \E k \in DOMAIN table : table[k][1] = name
        THEN CHOOSE k \in DOMAIN table : table[k][1] = name
        ELSE 0

\* matching of Color._rgb_pattern from the start of s: positions are 1-based,
\* 0 is "no match"
skip_spaces(s, p) ==
    IF p = 0 THEN 0
    ELSE CHOOSE q \in p..(Len(s) + 1) :
            /\ \A k \in p..(q - 1) : IsSpace(s[k])
            /\ (q = Len(s) + 1 \/ ~IsSpace(s[q]))

expect(s, p, ch) == IF p # 0 /\ p <= Len(s) /\ s[p] = ch THEN p + 1 ELSE 0

\* \d+ : the position after the digits at p, or 0 when there is none
skip_digits(s, p) ==
    IF p = 0 \/ p > Len(s) \/ ~IsDigit(s[p]) THEN 0
    ELSE CHOOSE q \in (p + 1)..(Len(s) + 1) :
            /\ \A k \in p..(q - 1) : IsDigit(s[k])
            /\ (q = Len(s) + 1 \/ ~IsDigit(s[q]))

\* _rgb_pattern.match(s): the three groups, or None.  match() anchors the
\* pattern at the start of s only.
rgb_pattern_match(s) ==
    LET p0 == IF startswith(s, <<"r", "g", "b">>) THEN 4 ELSE 0
        p1 == skip_spaces(s, expect(s, skip_spaces(s, p0), "("))
        e1 == skip_digits(s, p1)
        p2 == skip_spaces(s, expect(s, skip_spaces(s, e1), ","))
        e2 == skip_digits(s, p2)
        p3 == skip_spaces(s, expect(s, skip_spaces(s, e2), ","))
        e3 == skip_digits(s, p3)
        end == expect(s, skip_spaces(s, e3), ")")
    IN IF end = 0 THEN None
       ELSE Some(<<SubSeq(s, p1, e1 - 1), SubSeq(s, p2, e2 - 1), SubSeq(s, p3, e3 - 1)>>)

\* Color._parse_html_str
parse_html_str(html_str) ==
    LET r == int16(slice(html_str, 1, 3))
        g == int16(slice(html_str, 3, 5))
        b == int16(slice(html_str, 5, 7))
    IN IF ~IsOk(r) \/ ~IsOk(g) \/ ~IsOk(b) THEN Err("InvalidColor")
       ELSE Ok(<<r.val, g.val, b.val>>)

\* Color._parse_rgb_str
parse_rgb_str(rgb_str) ==
    LET match == rgb_pattern_match(rgb_str)
    IN IF match # None
          THEN LET rgb == <<int10(match[1][1]), int10(match[1][2]), int10(match[1][3])>>
               IN IF ~IsOk(validate_rgb_tuple(rgb)) THEN validate_rgb_tuple(rgb)
                  ELSE Ok(rgb)
          ELSE Err("InvalidColor")

\* Color.__new__ on a str
Color_from_str(color_init) ==
    LET s == strip(lower(color_init))
        rgb == IF startswith(s, <<"r", "g", "b", "(">>) THEN parse_rgb_str(s)
               ELSE IF startswith(s, <<"#">>) THEN parse_html_str(s)
               ELSE IF name_index(COLOR_NAMES, s) # 0
                    THEN Ok(COLOR_NAMES[name_index(COLOR_NAMES, s)][2])
               ELSE Err("InvalidColor")
    IN IF ~IsOk(rgb) THEN rgb
       ELSE IF ~IsOk(validate_rgb_tuple(rgb.val)) THEN validate_rgb_tuple(rgb.val)
       ELSE Ok(rgb.val)

\* Color.__str__
Color_str(c) ==
    <<"r", "g", "b", "(">> \o decimal(c[1]) \o <<",">> \o decimal(c[2])
        \o <<",">> \o decimal(c[3]) \o <<")">>

\* Color.luminance, in thousandths: the float the source computes is this
\* number / 1000
luminance(self) == 299 * self[1] + 587 * self[2] + 114 * self[3]

\* Color.css_fg_bg: the str "color:{fg};background-color:{bg};" as its two
\* fields; the source compares luminance() with 0.5
css_fg_bg(self) ==
    [fg |-> IF luminance(self) >= 500 THEN "black" ELSE "white",
     bg |-> html_color(self)]

\* Python's < on two str of lower-case letters
RECURSIVE str_less(_, _)
str_less(a, b) ==
    IF b = <<>> THEN FALSE
    ELSE IF a = <<>> THEN TRUE
    ELSE IF Head(a) = Head(b) THEN str_less(Tail(a), Tail(b))
    ELSE IndexOf(LowerLetters, Head(a)) < IndexOf(LowerLetters, Head(b))

\* Color._reverse_color_names[rgb] of {v: k for k, v in table.items()}: a
\* later item of the table replaces an earlier one with the same value, so
\* this is the position of the last entry with that RGB value, or 0
reverse_color_names(table, rgb) ==
    IF \E k \in DOMAIN table : table[k][2] = rgb
        THEN CHOOSE k \in DOMAIN table :
                /\ table[k][2] = rgb
                /\ \A j \in DOMAIN table : table[j][2] = rgb => j <= k
        ELSE 0

\* the square of this_distance; the source compares the square roots, which
\* are ordered and equal as the squares are
distance2(self, this_rgb) ==
    (self[1] - this_rgb[1]) * (self[1] - this_rgb[1])
    + (self[2] - this_rgb[2]) * (self[2] - this_rgb[2])
    + (self[3] - this_rgb[3]) * (self[3] - this_rgb[3])

\* the loop of Color.similar_to over table[k..]: closest is the position of
\* closest_color (0 is None, with closest_distance infinite).  min() of the
\* two tuples keeps (closest_distance, closest_color) unless
\* (this_distance, this_name) is smaller: a smaller distance, or the same
\* distance and a smaller name.
RECURSIVE closest_entry(_, _, _, _)
closest_entry(table, self, k, closest) ==
    IF k > Len(table) THEN closest
    ELSE LET this_distance == distance2(self, table[k][2])
             closest_distance == distance2(self, table[closest][2])
             smaller == \/ closest = 0
                        \/ this_distance < closest_distance
                        \/ /\ this_distance = closest_distance
                           /\ str_less(table[k][1], table[closest][1])
         IN closest_entry(table, self, k + 1, IF smaller THEN k ELSE closest)

\* Color.similar_to, with COLOR_NAMES the table: the name returned, and the
\* squared distance from which the "% match" of the text is computed (None
\* for a name returned without it)
similar_to(table, self) ==
    IF reverse_color_names(table, self) # 0
        THEN [name |-> table[reverse_color_names(table, self)][1], distance2 |-> None]
        ELSE LET k == closest_entry(table, self, 1, 0)
             IN [name |-> table[k][1], distance2 |-> Some(distance2(self, table[k][2]))]

-----------------------------------------------------------------------------
(* class Color on its own: the inputs of the calls *)

MaxHexLen == 7          \* characters after "#" in an html color string
MaxTupleLen == 4        \* elements of a tuple handed to Color()

\* channel values of the Colors that are written out and read back
Channels == {0, 1, 9, 10, 15, 16, 100, 127, 128, 255}

\* the strings of length n over a set of characters
RECURSIVE StringsOfLen(_, _)
StringsOfLen(chars, n) ==
    IF n = 0 THEN {<<>>}
    ELSE {Append(s, ch) : s \in StringsOfLen(chars, n - 1), ch \in chars}

\* "#" and n characters, n from 0 to MaxHexLen, and some with blanks, signs,
\* a prefix, or letters that are no digits
HtmlStrings ==
    {<<"#">> \o body : body \in UNION {StringsOfLen({"1", "F"}, n) : n \in 0..MaxHexLen}}
    \cup {<<"#">> \o body : body \in StringsOfLen({"a", " ", "-", "g"}, 3)}
    \cup {<<" ", "#", "F", "F", "f", "f", "F", "F", " ">>,
          <<"#", "+", "1", "+", "2", "+", "3">>,
          <<"#", "0", "x", "0", "x", "0", "x">>}

RgbNumbers == {0, 7, 255, 256}
RgbOpenings == {<<"r", "g", "b", "(">>, <<"R", "G", "B", "(", " ">>, <<"r", "g", "b", " ", "(">>}
RgbClosings == {<<")">>, <<" ", ")">>, <<")", "x">>, <<")", " ">>, <<>>}

RgbStrings ==
    {open \o decimal(r) \o <<",">> \o decimal(g) \o <<",", " ">> \o decimal(b) \o close :
        open \in RgbOpenings, close \in RgbClosings,
        r \in RgbNumbers, g \in RgbNumbers, b \in RgbNumbers}

NameStrings ==
    {<<"r", "e", "d">>, <<" ", "R", "E", "D", " ">>, <<"c", "y", "a", "n">>,
     <<"n", "o", "s", "u", "c", "h">>, <<"r", "g", "b">>, <<>>}

\* tables that COLOR_NAMES may be: in and out of alphabetical order, with
\* and without two names for one RGB value
NameTables ==
    {COLOR_NAMES,
     << <<<<"w", "h", "i", "t", "e">>, <<255, 255, 255>>>>,
        <<<<"c", "y", "a", "n">>, <<0, 255, 255>>>>,
        <<<<"b", "l", "a", "c", "k">>, <<0, 0, 0>>>>,
        <<<<"a", "q", "u", "a">>, <<0, 255, 255>>>> >>,
     << <<<<"r", "e", "d">>, <<255, 0, 0>>>>,
        <<<<"b", "l", "u", "e">>, <<0, 0, 255>>>> >>}

\* the colours whose name is looked up
NamedChannels == {0, 127, 128, 255}
SimilarToArguments ==
    {<<table, <<r, g, b>>>> : table \in NameTables,
                             r \in NamedChannels, g \in NamedChannels, b \in NamedChannels}

ColorStrings == HtmlStrings \cup RgbStrings \cup NameStrings

\* integer tuples of 2 to MaxTupleLen elements, in and out of [0,255]
ColorTuples ==
    UNION {{t \in [1..n -> {-1, 0, 255, 256}] : TRUE} : n \in 2..MaxTupleLen}

\* `last` for a call on class Color or on one Color
ColorCall(op, arg, result) == [op |-> op, arg |-> arg, result |-> result]

\* whether rgb is an integer triple in [0,255]^3
IsRGB(rgb) == Len(rgb) = 3 /\ \A k \in 1..3 : rgb[k] \in 0..255

ChannelTriples == {<<r, g, b>> : r \in Channels, g \in Channels, b \in Channels}

\* no factory exists; the argument of one call is chosen, a tuple or a str
ColorInit ==
    /\ factories = <<>>
    /\ cache = <<>>
    /\ \/ \E t \in ColorTuples \cup ChannelTriples : last = ColorCall("tuple", t, Ok(None))
       \/ \E s \in ColorStrings : last = ColorCall("str", s, Ok(None))
       \/ \E a \in SimilarToArguments : last = ColorCall("table and tuple", a, Ok(None))
    /\ pending = None

\* Color(color_init) on the chosen integer tuple
ColorFromTuple ==
    /\ last.op = "tuple"
    /\ last' = ColorCall("Color(tuple)", last.arg, Color(last.arg))
    /\ UNCHANGED <<factories, cache, pending>>

\* Color(color_init) on the chosen str
ColorFromStr ==
    /\ last.op = "str"
    /\ last' = ColorCall("Color(str)", last.arg, Color_from_str(last.arg))
    /\ UNCHANGED <<factories, cache, pending>>

\* c = Color(rgb); Color(c.html_color); Color(str(c)), on a chosen triple
\* of [0,255]^3
RoundTrip ==
    LET rgb == last.arg
        c == Color(rgb)
    IN /\ last.op = "tuple"
       /\ IsRGB(rgb)
       /\ last' = ColorCall("round trip", rgb,
                     [color |-> c,
                      html_color |-> html_color(c.val),
                      from_html_color |-> Color_from_str(html_color(c.val)),
                      str |-> Color_str(c.val),
                      from_str |-> Color_from_str(Color_str(c.val))])
       /\ UNCHANGED <<factories, cache, pending>>

\* Color(rgb).css_fg_bg(), on a chosen triple of [0,255]^3
CssFgBg ==
    /\ last.op = "tuple"
    /\ IsRGB(last.arg)
    /\ last' = ColorCall("css_fg_bg", last.arg, css_fg_bg(last.arg))
    /\ UNCHANGED <<factories, cache, pending>>

\* Color(rgb).similar_to(), with COLOR_NAMES the chosen table
SimilarTo ==
    /\ last.op = "table and tuple"
    /\ last' = ColorCall("similar_to", last.arg, similar_to(last.arg[1], last.arg[2]))
    /\ UNCHANGED <<factories, cache, pending>>

ColorNext ==
    \/ ColorFromTuple
    \/ ColorFromStr
    \/ RoundTrip
    \/ CssFgBg
    \/ SimilarTo

SpecColor == ColorInit /\ [][ColorNext]_vars

-----------------------------------------------------------------------------
(* Properties of class Color (SpecColor) *)

\* C14: for integer triples (r,g,b) in [0,255]^3, Color((r,g,b)) has the
\* channels (r,g,b), and the Colors parsed from its "#RRGGBB" text
\* (html_color) and from its "rgb(r,g,b)" text (str) equal the original.
C14_RoundTrip ==
    last.op = "round trip"
    => /\ last.result.color = Ok(last.arg)
       /\ last.result.from_html_color = Ok(last.arg)
       /\ last.result.from_str = Ok(last.arg)

\* a Color with a channel of one hexadecimal digit and a channel of three
\* decimal digits has been written out and read back
C14_Witness ==
    /\ last.op = "round trip"
    /\ last.arg = <<9, 255, 16>>
    /\ last.result.html_color = <<"#", "0", "9", "F", "F", "1", "0">>
    /\ last.result.from_html_color = Ok(<<9, 255, 16>>)
    /\ last.result.str = <<"r", "g", "b", "(", "9", ",", "2", "5", "5", ",", "1", "6", ")">>
    /\ last.result.from_str = Ok(<<9, 255, 16>>)

\* C15: Color.css_fg_bg gives the foreground black exactly when the
\* luminance 0.299 R + 0.587 G + 0.114 B of the colour is >= 0.5 * 255
\* (127.5), and white otherwise.
C15_ForegroundThreshold ==
    last.op = "css_fg_bg"
    => (last.result.fg = "black"
        <=> 299 * last.arg[1] + 587 * last.arg[2] + 114 * last.arg[3] >= 127500)

\* the foreground is one of the two, and the background is the colour
ForegroundBlackOrWhite ==
    last.op = "css_fg_bg"
    => /\ last.result.fg \in {"black", "white"}
       /\ Color_from_str(last.result.bg) = Ok(last.arg)

\* the texts "rgb(r,g,b)" of the inputs in which a number is above 255
RgbStringsAbove255 ==
    {open \o decimal(r) \o <<",">> \o decimal(g) \o <<",", " ">> \o decimal(b) \o close :
        open \in RgbOpenings, close \in RgbClosings,
        r \in RgbNumbers, g \in RgbNumbers, b \in {n \in RgbNumbers : n > 255}}
    \cup {open \o decimal(r) \o <<",">> \o decimal(g) \o <<",", " ">> \o decimal(b) \o close :
        open \in RgbOpenings, close \in RgbClosings,
        r \in RgbNumbers, g \in {n \in RgbNumbers : n > 255}, b \in RgbNumbers}
    \cup {open \o decimal(r) \o <<",">> \o decimal(g) \o <<",", " ">> \o decimal(b) \o close :
        open \in RgbOpenings, close \in RgbClosings,
        r \in {n \in RgbNumbers : n > 255}, g \in RgbNumbers, b \in RgbNumbers}

\* a str that has neither of the two prefixes and is no name of the table
NoFormNoName(text) ==
    LET s == strip(lower(text))
    IN /\ ~startswith(s, <<"r", "g", "b", "(">>)
       /\ ~startswith(s, <<"#">>)
       /\ \A k \in DOMAIN COLOR_NAMES : COLOR_NAMES[k][1] # s

\* C16: Color() fails with InvalidColor on an integer tuple whose length is
\* not 3, on an integer 3-tuple with a channel outside [0,255], on an
\* "rgb(r,g,b)" str with a number above 255, and on a str that is neither a
\* supported form nor a name of the table; every Color constructed has three
\* channels in [0,255].
C16_InvalidColor ==
    /\ last.op = "Color(tuple)"
        => /\ ~IsRGB(last.arg) => last.result = Err("InvalidColor")
           /\ IsOk(last.result) => IsRGB(last.result.val)
    /\ last.op = "Color(str)"
        => /\ last.arg \in RgbStringsAbove255 => last.result = Err("InvalidColor")
           /\ NoFormNoName(last.arg) => last.result = Err("InvalidColor")
           /\ IsOk(last.result) => IsRGB(last.result.val)

\* Color((0, 255, 256)) has been called and has failed with InvalidColor
C16_Witness ==
    /\ last.op = "Color(tuple)"
    /\ last.arg = <<0, 255, 256>>
    /\ last.result = Err("InvalidColor")

\* each of the other three cases has been called and has failed
InvalidColorCasesReached_Arity ==
    last.op = "Color(tuple)" /\ Len(last.arg) = 4 /\ last.result = Err("InvalidColor")
InvalidColorCasesReached_Rgb ==
    /\ last.op = "Color(str)"
    /\ last.arg = <<"r", "g", "b", "(", "0", ",", "2", "5", "6", ",", " ", "7", ")">>
    /\ last.result = Err("InvalidColor")
InvalidColorCasesReached_Name ==
    /\ last.op = "Color(str)"
    /\ last.arg = <<"n", "o", "s", "u", "c", "h">>
    /\ last.result = Err("InvalidColor")

\* "#" followed by exactly six hexadecimal digits, in lower case
StrictHtmlForm(s) ==
    /\ Len(s) = 7
    /\ s[1] = "#"
    /\ \A k \in 2..7 : IndexOf(LowerHexDigits, s[k]) # 0

\* the whole of s has the form rgb(R,G,B): the pattern matches from the
\* start, and its closing ")" is the last character of s
StrictRgbForm(s) ==
    /\ rgb_pattern_match(s) # None
    /\ s[Len(s)] = ")"
    /\ Cardinality({k \in DOMAIN s : s[k] = ")"}) = 1

\* C17: a str starting with "#" is accepted only if it is exactly "#" and
\* six hexadecimal digits, and a str starting with "rgb(" is accepted only
\* if the whole of it has the form rgb(R,G,B); anything shorter or longer
\* ("#12345", "#1234567", "rgb(1,2,3)x") fails with InvalidColor.
C17_StrictGrammar ==
    last.op = "Color(str)"
    => LET s == strip(lower(last.arg))
       IN /\ (startswith(s, <<"#">>) /\ ~StrictHtmlForm(s))
                => last.result = Err("InvalidColor")
          /\ (startswith(s, <<"r", "g", "b", "(">>) /\ ~StrictRgbForm(s))
                => last.result = Err("InvalidColor")

\* the strict forms themselves are accepted
StrictFormsAccepted ==
    last.op = "Color(str)"
    => LET s == strip(lower(last.arg))
       IN /\ StrictHtmlForm(s) => IsOk(last.result)
          /\ (StrictRgbForm(s) /\ startswith(s, <<"r", "g", "b", "(">>)
              /\ last.arg \notin RgbStringsAbove255) => IsOk(last.result)

\* the positions of the entries of the table at minimum distance from rgb
Nearest(table, rgb) ==
    {k \in DOMAIN table :
        \A j \in DOMAIN table : distance2(rgb, table[k][2]) <= distance2(rgb, table[j][2])}

\* the first of them in the order of the table
FirstNearest(table, rgb) ==
    CHOOSE k \in Nearest(table, rgb) : \A j \in Nearest(table, rgb) : k <= j

\* C18: Color.similar_to returns the name of the table entry at minimum
\* Euclidean RGB distance from the colour, and among several entries at that
\* distance (several names of the colour's own RGB included) the one that
\* comes first in the order of the table.
C18_FirstNearestName ==
    last.op = "similar_to"
    => last.result.name = last.arg[1][FirstNearest(last.arg[1], last.arg[2])][1]

\* the name returned is that of an entry at minimum distance
NearestName ==
    last.op = "similar_to"
    => \E k \in Nearest(last.arg[1], last.arg[2]) : last.result.name = last.arg[1][k][1]

-----------------------------------------------------------------------------
(* ColorFactory.get_color in two steps, with no lock around them: the       *)
(* comparison of the fingerprint (and the clearing of the cache), then the  *)
(* call of _cached_get_color.  Another thread may change the configuration  *)
(* between the two.                                                         *)

RaceQueries == {<<50>>, <<50, 150>>}

\* `last` for a get_color made in two steps: checked is the factory as it
\* was when the fingerprint was compared, held the value the cache held for
\* the key when _cached_get_color was called (or None)
RaceCall(f, q, result, hit, held, checked) ==
    [op |-> "get_color in two steps", f |-> f, i |-> 0, q |-> q, color |-> <<>>,
     result |-> result, hit |-> hit, held |-> held, checked |-> checked]

\* the first step of factories[f].get_color(*q): the fingerprint is computed
\* and compared, the cache cleared and the fingerprint stored if it differs
GetColorCompare(f, q) ==
    LET self == factories[f]
        current_config_hash == get_hash(self)
        changed == current_config_hash # self.config_hash
        compared == IF changed
                    THEN [factories EXCEPT ![f].config_hash = current_config_hash]
                    ELSE factories
    IN /\ pending = None
       /\ factories' = compared
       /\ cache' = IF changed THEN cache_clear(cache) ELSE cache
       /\ pending' = Some([f |-> f, q |-> q, self |-> compared[f]])
       /\ UNCHANGED last

\* the second step: return self._cached_get_color(determiner_tuple), on the
\* factory as it is now
GetColorCall ==
    LET p == pending[1]
        call == lru_call(cache, p.f, factories[p.f], p.q)
        held == {k \in DOMAIN cache : cache[k].key = <<p.f, p.q>>}
    IN /\ pending # None
       /\ cache' = call.cache
       /\ last' = RaceCall(p.f, p.q, call.result, call.hit,
                           IF held = {} THEN None
                           ELSE Some(cache[CHOOSE k \in held : TRUE].value),
                           p.self)
       /\ pending' = None
       /\ UNCHANGED factories

RaceNext ==
    \/ AddDimension(1, 1)
    \/ \E i \in DOMAIN factories[1].dimensions, dc \in ConfigInputs :
          AddConfig(1, i, dc[1], dc[2])
    \/ \E m \in BlendMethods : SetBlendMethod(1, m)
    \/ \E q \in RaceQueries : GetColorCompare(1, q)
    \/ GetColorCall

SpecRace == Init /\ [][RaceNext]_vars

-----------------------------------------------------------------------------
(* Properties of get_color without mutual exclusion (SpecRace) *)

\* C19: a get_color made in two steps returns what the cache holds for the
\* key when it is read, whatever the configuration has become since the
\* fingerprint was compared, and computes the colour of the current
\* configuration only if the cache holds nothing; so a mutation between the
\* two steps makes it return a stale Color (the state of C19_Witness).
C19_CallServesCache ==
    last.op = "get_color in two steps"
    => last.result = IF last.held # None THEN Ok(last.held[1])
                     ELSE cached_get_color(factories[last.f], last.q)

\* a get_color has returned, from the cache, the Color of the configuration
\* whose fingerprint it compared, the configuration has been changed since
\* that comparison, and the Color of the current configuration is another
C19_Witness ==
    /\ last.op = "get_color in two steps"
    /\ last.hit
    /\ IsOk(last.result)
    /\ unload(last.checked) # unload(factories[last.f])
    /\ last.result = cached_get_color(last.checked, last.q)
    /\ IsOk(cached_get_color(factories[last.f], last.q))
    /\ cached_get_color(factories[last.f], last.q) # last.result

\* with no mutation between the two steps, and a cache that holds nothing
\* older than the fingerprint, the Color returned is the current one
NoRaceNoStale ==
    (/\ last.op = "get_color in two steps"
     /\ unload(last.checked) = unload(factories[last.f])
     /\ last.held # None => Ok(last.held[1]) = cached_get_color(last.checked, last.q))
    => last.result = cached_get_color(factories[last.f], last.q)

-----------------------------------------------------------------------------
(* Properties of add_dimension (Spec) *)

\* C20: add_dimension(e) with e >= 0 appends one new Dimension, empty and
\* not ready, with exponent e, at the end of the factory's Dimensions and
\* returns it (its handle is its position), the Dimensions already there
\* staying as they were; with e < 0 it fails with InvalidConfigPoint and
\* the Dimensions stay exactly as they were.
C20_AddDimension ==
    [][last'.op = "add_dimension"
       => LET e == last'.q[1]
              before == factories[last'.f].dimensions
              after == factories'[last'.f].dimensions
          IN IF e >= 0
             THEN /\ Len(after) = Len(before) + 1
                  /\ SubSeq(after, 1, Len(before)) = before
                  /\ after[Len(after)] = [interpolation_exponent |-> e,
                                          configs |-> <<>>, ready |-> FALSE,
                                          min |-> None, max |-> None, range |-> None]
                  /\ last'.result = Ok(Some(Len(after)))
             ELSE /\ last'.result = Err("InvalidConfigPoint")
                  /\ after = before]_vars

\* a second Dimension has been appended behind one that holds a ConfigPoint
C20_Witness ==
    /\ last.op = "add_dimension"
    /\ last.result = Ok(Some(2))
    /\ Len(Fac.dimensions) = 2
    /\ Len(Fac.dimensions[1].configs) >= 1
    /\ Fac.dimensions[2].configs = <<>>
    /\ ~Fac.dimensions[2].ready

\* add_dimension with a negative exponent has failed on a factory that has
\* a Dimension
NegativeExponentReached ==
    /\ last.op = "add_dimension"
    /\ last.q[1] < 0
    /\ last.result = Err("InvalidConfigPoint")
    /\ Len(Fac.dimensions) >= 1


-----------------------------------------------------------------------------
(* Python float: the IEEE 754 double arithmetic of Dimension.get_color and  *)
(* Color.blend_lerp, bit for bit. A double is [neg, m, x], the value        *)
(* (-1)^neg * m * 2^x with m a natural number of at most MantissaBits bits, *)
(* kept as a sequence of limbs, least significant first.                   *)

LimbBits == 15
LimbBase == 2 ^ LimbBits
MantissaBits == 53

RECURSIVE big_of(_)
big_of(n) == IF n = 0 THEN <<>> ELSE <<n % LimbBase>> \o big_of(n \div LimbBase)

RECURSIVE big_to_int(_)
big_to_int(a) == IF a = <<>> THEN 0 ELSE a[1] + LimbBase * big_to_int(Tail(a))

\* without its leading zero limbs
RECURSIVE big_strip(_)
big_strip(a) ==
    IF a = <<>> THEN a
    ELSE IF a[Len(a)] = 0 THEN big_strip(SubSeq(a, 1, Len(a) - 1))
    ELSE a

big_limb(a, i) == IF i <= Len(a) THEN a[i] ELSE 0
big_rest(a) == IF a = <<>> THEN a ELSE Tail(a)

RECURSIVE big_add(_, _, _)
big_add(a, b, carry) ==
    IF a = <<>> /\ b = <<>> THEN (IF carry = 0 THEN <<>> ELSE <<carry>>)
    ELSE LET s == big_limb(a, 1) + big_limb(b, 1) + carry
         IN <<s % LimbBase>> \o big_add(big_rest(a), big_rest(b), s \div LimbBase)

\* a - b - borrow for a >= b
RECURSIVE big_sub(_, _, _)
big_sub(a, b, borrow) ==
    IF a = <<>> THEN <<>>
    ELSE LET d == a[1] - big_limb(b, 1) - borrow
         IN <<IF d < 0 THEN d + LimbBase ELSE d>>
            \o big_sub(Tail(a), big_rest(b), IF d < 0 THEN 1 ELSE 0)

\* -1, 0, 1 as a < b, a = b, a > b, for a and b without leading zero limbs
RECURSIVE big_cmp(_, _)
big_cmp(a, b) ==
    IF Len(a) # Len(b) THEN (IF Len(a) < Len(b) THEN -1 ELSE 1)
    ELSE IF a = <<>> THEN 0
    ELSE IF a[Len(a)] # b[Len(b)] THEN (IF a[Len(a)] < b[Len(b)] THEN -1 ELSE 1)
    ELSE big_cmp(SubSeq(a, 1, Len(a) - 1), SubSeq(b, 1, Len(b) - 1))

\* a * k + carry for one limb k
RECURSIVE big_mul_limb(_, _, _)
big_mul_limb(a, k, carry) ==
    IF a = <<>> THEN (IF carry = 0 THEN <<>> ELSE <<carry>>)
    ELSE LET p == a[1] * k + carry
         IN <<p % LimbBase>> \o big_mul_limb(Tail(a), k, p \div LimbBase)

RECURSIVE big_mul(_, _)
big_mul(a, b) ==
    IF b = <<>> THEN <<>>
    ELSE big_strip(big_add(big_mul_limb(a, b[1], 0),
                           IF Tail(b) = <<>> THEN <<>>
                           ELSE <<0>> \o big_mul(a, Tail(b)),
                           0))

\* quotient q and remainder r of a by w, for 0 < w < LimbBase
RECURSIVE big_divmod(_, _)
big_divmod(a, w) ==
    IF a = <<>> THEN [q |-> <<>>, r |-> 0]
    ELSE LET hi == big_divmod(Tail(a), w)
             cur == hi.r * LimbBase + a[1]
         IN [q |-> <<cur \div w>> \o hi.q, r |-> cur % w]

RECURSIVE int_bits(_)
int_bits(n) == IF n = 0 THEN 0 ELSE 1 + int_bits(n \div 2)

\* int.bit_length of a
big_bits(a) ==
    IF a = <<>> THEN 0 ELSE (Len(a) - 1) * LimbBits + int_bits(a[Len(a)])

\* a * 2^s
big_shl(a, s) ==
    IF a = <<>> THEN a
    ELSE [i \in 1..(s \div LimbBits) |-> 0] \o big_mul_limb(a, 2 ^ (s % LimbBits), 0)

\* a \div 2^s
big_shr(a, s) ==
    IF s \div LimbBits >= Len(a) THEN <<>>
    ELSE big_strip(big_divmod(SubSeq(a, s \div LimbBits + 1, Len(a)),
                              2 ^ (s % LimbBits)).q)

\* the double nearest to (-1)^neg * m * 2^x (ties to even); sticky: the
\* exact value is a little above m * 2^x
float_round(neg, m, x, sticky) ==
    LET b == big_bits(m)
        s == b - MantissaBits
        q == big_shr(m, s)
        rem == big_strip(big_sub(m, big_shl(q, s), 0))
        half == big_shl(<<1>>, s - 1)
        c == big_cmp(rem, half)
        up == c = 1 \/ (c = 0 /\ (sticky \/ q[1] % 2 = 1))
    IN IF b <= MantissaBits THEN [neg |-> neg, m |-> m, x |-> x]
       ELSE [neg |-> neg, m |-> IF up THEN big_add(q, <<1>>, 0) ELSE q, x |-> x + s]

\* float(k) of an int k
float_of_int(k) == [neg |-> k < 0, m |-> big_of(Abs(k)), x |-> 0]

\* v * k for a double v and an int k (k as a double is exact)
float_mul_int(v, k) ==
    float_round(v.neg # (k < 0), big_mul(v.m, big_of(Abs(k))), v.x, FALSE)

\* v + k for a double v and an int k
float_add_int(v, k) ==
    LET a == IF v.x >= 0 THEN big_shl(v.m, v.x) ELSE v.m
        kk == IF v.x >= 0 THEN big_of(Abs(k)) ELSE big_shl(big_of(Abs(k)), -v.x)
        y == IF v.x >= 0 THEN 0 ELSE v.x
        c == big_cmp(a, kk)
    IN IF v.neg = (k < 0) THEN float_round(v.neg, big_add(a, kk, 0), y, FALSE)
       ELSE IF c >= 0 THEN float_round(v.neg, big_strip(big_sub(a, kk, 0)), y, FALSE)
       ELSE float_round(k < 0, big_strip(big_sub(kk, a, 0)), y, FALSE)

\* v / w for a double v and an int w, 0 < w < LimbBase
float_div_int(v, w) ==
    LET need == MantissaBits + 2 + int_bits(w) - big_bits(v.m)
        k == IF need > 0 THEN need ELSE 0
        d == big_divmod(big_shl(v.m, k), w)
    IN IF v.m = <<>> THEN v
       ELSE float_round(v.neg, big_strip(d.q), v.x - k, d.r # 0)

\* |v| against the natural number n: -1, 0, 1
float_cmp_abs(v, n) ==
    IF v.x >= 0 THEN big_cmp(big_shl(v.m, v.x), big_of(n))
    ELSE big_cmp(v.m, big_shl(big_of(n), -v.x))

\* v <= c for a double v and an int c
float_le_int(v, c) ==
    IF v.neg /\ v.m # <<>> THEN c >= 0 \/ float_cmp_abs(v, -c) >= 0
    ELSE c >= 0 /\ float_cmp_abs(v, c) <= 0

\* int(v): truncation toward zero
float_int(v) ==
    LET t == big_to_int(IF v.x >= 0 THEN big_shl(v.m, v.x) ELSE big_shr(v.m, -v.x))
    IN IF v.neg THEN -t ELSE t

\* b ** k for ints b > 0 and k, as a double: b^k when k >= 0, the double
\* nearest to 1 / b^-k otherwise
float_pow(b, k) ==
    IF k >= 0 THEN float_of_int(Pow(b, k))
    ELSE float_div_int(float_of_int(1), Pow(b, -k))


\* faulty variant: blend_lerp that takes alpha as given
float_blend_lerp_unclamped(base_color, blend_color, alpha) ==
    LET chan(k) == float_int(float_add_int(
                       float_mul_int(alpha, blend_color[k] - base_color[k]),
                       base_color[k]))
    IN Color(<<chan(1), chan(2), chan(3)>>)

\* Color.blend_lerp with alpha a double
float_blend_lerp(base_color, blend_color, alpha) ==
    LET \* alpha = max(0.0, min(1.0, alpha))
        a == IF ~float_le_int(alpha, 1) THEN float_of_int(1)
             ELSE IF alpha.neg THEN float_of_int(0)
             ELSE alpha
        chan(k) == float_int(float_add_int(
                       float_mul_int(a, blend_color[k] - base_color[k]),
                       base_color[k]))
    IN Color(<<chan(1), chan(2), chan(3)>>)

\* the exponent remap of get_color as the double it is:
\* min + (determiner_range ** e) * (range ** (1 - e))
float_adjusted_determiner(mn, rg, determiner_range, e) ==
    float_add_int(float_mul_int(float_pow(rg, 1 - e), Pow(determiner_range, e)), mn)

\* faulty variant: a bracket scan that excludes the upper bound
RECURSIVE float_find_gradient_exclusive(_, _, _)
float_find_gradient_exclusive(configs, adjusted, j) ==
    IF j > Len(configs) - 1 THEN 0
    ELSE IF ~float_le_int(adjusted, configs[j + 1].real)
            \/ float_cmp_abs(adjusted, configs[j + 1].real) = 0
         THEN float_find_gradient_exclusive(configs, adjusted, j + 1)
    ELSE j

\* the bracket scan of get_color on the double: the first j (counted from 1)
\* with adjusted <= configs[j + 1], or 0 when the loop ends without a break
RECURSIVE float_find_gradient(_, _, _)
float_find_gradient(configs, adjusted, j) ==
    IF j > Len(configs) - 1 THEN 0
    ELSE IF float_le_int(adjusted, configs[j + 1].real) THEN j
    ELSE float_find_gradient(configs, adjusted, j + 1)

\* the clamped and remapped determiner of get_color
float_remap(self, determiner) ==
    float_adjusted_determiner(self.min[1], self.range[1],
                              clamp(self.min[1], self.max[1], determiner) - self.min[1],
                              self.interpolation_exponent)

\* blend_factor = (adjusted - gradient_min) / (gradient_max - gradient_min)
float_blend_factor(adjusted, gradient_min, gradient_max) ==
    float_div_int(float_add_int(adjusted, -gradient_min.real),
                  gradient_max.real - gradient_min.real)

\* Dimension.get_color from the clamp on, in double arithmetic
float_interpolate(self, determiner) ==
    LET adjusted == float_remap(self, determiner)
        j == float_find_gradient(self.configs, adjusted, 1)
    IN IF j = 0 THEN Err("UnboundLocalError")   \* gradient_min never bound
       ELSE
        LET gradient_min == self.configs[j]
            gradient_max == self.configs[j + 1]
            blend_factor == float_blend_factor(adjusted, gradient_min, gradient_max)
        IN IF gradient_min.real = gradient_max.real THEN Err("DegenerateGradient")
           ELSE float_blend_lerp(gradient_min.color, gradient_max.color, blend_factor)

\* Dimension.get_color in double arithmetic
float_Dimension_get_color(self, determiner) ==
    IF self.range = None THEN Err("TypeError")      \* None <= 0
    ELSE IF self.range[1] <= 0 THEN Ok(self.configs[1].color)
    ELSE float_interpolate(self, determiner)

(* One Dimension with anchors that double arithmetic does not reach exactly *)

FloatExponents == {0, 1, 2, 3}
FloatAnchors == {<<0, <<0, 0, 0>>>>, <<10, <<100, 0, 0>>>>, <<31, <<255, 255, 255>>>>}
FloatQueries == {-3, 0, 5, 10, 20, 30, 31, 40}

FloatInit ==
    /\ \E e \in FloatExponents :
          factories = <<[ColorFactory(LERP_BLEND) EXCEPT
                            !.dimensions = <<Dimension(e).val>>]>>
    /\ cache = <<>>
    /\ last = Call("add_dimension", 1, 0, <<>>, <<>>, Ok(Some(1)), FALSE, None)
    /\ pending = None

\* factories[1].dimensions[1].get_color(determiner) as the doubles compute it
FloatGetColor(determiner) ==
    /\ last' = Call("Dimension.get_color", 1, 1, <<determiner>>, <<>>,
                    float_Dimension_get_color(factories[1].dimensions[1], determiner),
                    FALSE, None)
    /\ UNCHANGED <<factories, cache, pending>>

FloatNext ==
    \/ \E a \in FloatAnchors : DimAddConfig(a[1], a[2])
    \/ \E d \in FloatQueries : FloatGetColor(d)

SpecFloat == FloatInit /\ [][FloatNext]_vars

\* C21: Dimension.get_color on a ready Dimension with at least two
\* ConfigPoints never fails, whatever the exponent e >= 0 and the determiner:
\* the bracket scan finds a pair and the blend gives a Color
C21_GetColorTotal ==
    (/\ last.op = "Dimension.get_color"
     /\ LastDim.ready
     /\ Len(LastDim.configs) >= 2)
    => IsOk(last.result)

\* get_color fails at the top anchor: the remap of 31 with exponent 3 is
\* rounded to a double above 31 and the scan binds no bracket
GetColorFailsAtTop ==
    /\ last.op = "Dimension.get_color"
    /\ LastDim.interpolation_exponent = 3
    /\ LastDim.max = Some(31)
    /\ last.q = <<31>>
    /\ last.result = Err("UnboundLocalError")

\* lemma: with exponents 0, 1 and 2 the call is total on these anchors
GetColorTotalBelowThree ==
    (/\ last.op = "Dimension.get_color"
     /\ LastDim.ready
     /\ Len(LastDim.configs) >= 2
     /\ LastDim.interpolation_exponent <= 2)
    => IsOk(last.result)


\* lemma (SpecDim): on the calls SpecDim makes, which include every
\* Dimension.get_color that Spec and SpecRace make, the fractions give what
\* the doubles give
DoubleArithmeticAgrees ==
    last.op = "Dimension.get_color"
    => last.result = float_Dimension_get_color(LastDim, last.q[1])


-----------------------------------------------------------------------------
(* Anchors and the linear blend (SpecFloat) *)

\* the position of the ConfigPoint of d with determiner v, or 0
anchor_index(d, v) ==
    IF \E k \in DOMAIN d.configs : d.configs[k].real = v
    THEN CHOOSE k \in DOMAIN d.configs : d.configs[k].real = v
    ELSE 0

\* the last call asked a Dimension of exponent 1 and at least two
\* ConfigPoints for the color at one of its anchors
AskedAtAnchor ==
    /\ last.op = "Dimension.get_color"
    /\ LastDim.interpolation_exponent = 1
    /\ Len(LastDim.configs) >= 2
    /\ anchor_index(LastDim, last.q[1]) # 0

\* C22: with exponent 1, get_color at the determiner of a ConfigPoint returns
\* that ConfigPoint's color; above the lowest anchor the remapped value falls
\* in the bracket that ends at the anchor (the upper bound is inclusive) and
\* the blend factor is 1
C22_AnchorsReproduced ==
    AskedAtAnchor =>
        LET k == anchor_index(LastDim, last.q[1])
            adjusted == float_remap(LastDim, last.q[1])
        IN /\ last.result = Ok(LastDim.configs[k].color)
           /\ k >= 2 =>
                 /\ float_le_int(adjusted, LastDim.configs[k].real)
                 /\ ~float_le_int(adjusted, LastDim.configs[k - 1].real)
                 /\ float_cmp_abs(float_blend_factor(adjusted, LastDim.configs[k - 1],
                                                     LastDim.configs[k]), 1) = 0

\* get_color at the interior anchor of three returned the anchor's color
C22_Witness ==
    /\ AskedAtAnchor
    /\ Len(LastDim.configs) = 3
    /\ anchor_index(LastDim, last.q[1]) = 2
    /\ last.result = Ok(LastDim.configs[2].color)


(* Color.blend_lerp called once on drawn arguments, beside a Dimension of *)
(* exponent 1 between black and white                                      *)

LerpPalette == {<<0, 0, 0>>, <<255, 255, 255>>, <<100, 0, 0>>, <<7, 200, 9>>}
\* alpha = n / d as a double
LerpAlphas == {<<n, d>> : n \in -1..5, d \in {1, 2, 3, 4}}
LerpAnchors == {<<0, <<0, 0, 0>>>>, <<62, <<255, 255, 255>>>>, <<100, <<255, 255, 255>>>>}
LerpQueries == {0, 31, 50, 62, 81, 100}

LerpInit ==
    /\ factories = <<[ColorFactory(LERP_BLEND) EXCEPT
                         !.dimensions = <<Dimension(1).val>>]>>
    /\ cache = <<>>
    /\ \E base_color \in LerpPalette, blend_color \in LerpPalette, a \in LerpAlphas :
          last = Call("arguments", 0, 0, a, <<base_color, blend_color>>, Ok(None), FALSE, None)
    /\ pending = None

\* Color.blend_lerp(base_color, blend_color, n / d) on the arguments drawn
BlendLerp ==
    /\ last.op = "arguments"
    /\ last' = [last EXCEPT
                  !.op = "blend_lerp",
                  !.result = float_blend_lerp(last.color[1], last.color[2],
                                 float_div_int(float_of_int(last.q[1]), last.q[2]))]
    /\ UNCHANGED <<factories, cache, pending>>

LerpNext ==
    \/ BlendLerp
    \/ \E a \in LerpAnchors : DimAddConfig(a[1], a[2])
    \/ \E d \in LerpQueries : FloatGetColor(d)

SpecLerp == LerpInit /\ [][LerpNext]_vars

\* base + (blend - base) * n / d truncated toward zero, n / d confined to [0, 1]
LerpChannel(base_color, blend_color, n, d) ==
    IF n <= 0 THEN base_color
    ELSE IF n >= d THEN blend_color
    ELSE TruncDiv(base_color * d + (blend_color - base_color) * n, d)

Between(lo, x, hi) == (lo <= x /\ x <= hi) \/ (hi <= x /\ x <= lo)

\* the last call asked a Dimension of exponent 1 from black to white for the
\* color at the midpoint of its range
AskedAtMidpoint ==
    /\ last.op = "Dimension.get_color"
    /\ Len(LastDim.configs) = 2
    /\ LastDim.configs[1].color = <<0, 0, 0>>
    /\ LastDim.configs[2].color = <<255, 255, 255>>
    /\ 2 * last.q[1] = LastDim.configs[1].real + LastDim.configs[2].real

\* C23: blend_lerp returns a Color whose channels lie between those of base
\* and blend; alpha <= 0 gives base and alpha >= 1 gives blend; for an alpha
\* that is a double exactly (n/1, n/2, n/4) each channel is
\* base + (blend - base) * alpha truncated toward zero, so black and white
\* at 0.5 give (127,127,127); and a Dimension of exponent 1 from black to white
\* returns (127,127,127) at the midpoint of its range
C23_Lerp ==
    /\ last.op = "blend_lerp" =>
          LET base_color == last.color[1]
              blend_color == last.color[2]
              n == last.q[1]
              d == last.q[2]
          IN /\ IsOk(last.result)
             /\ \A k \in 1..3 :
                   /\ Between(base_color[k], last.result.val[k], blend_color[k])
                   /\ d # 3 => last.result.val[k]
                                = LerpChannel(base_color[k], blend_color[k], n, d)
             /\ n <= 0 => last.result = Ok(base_color)
             /\ n >= d => last.result = Ok(blend_color)
             /\ (base_color = <<0, 0, 0>> /\ blend_color = <<255, 255, 255>> /\ 2 * n = d)
                   => last.result = Ok(<<127, 127, 127>>)
    /\ AskedAtMidpoint => last.result = Ok(<<127, 127, 127>>)

\* blend_lerp of black and white at 0.5 returned (127,127,127)
C23_Witness ==
    /\ last.op = "blend_lerp"
    /\ last.color = <<<<0, 0, 0>>, <<255, 255, 255>>>>
    /\ last.q = <<1, 2>>
    /\ last.result = Ok(<<127, 127, 127>>)

\* the cases of C23 beside the witness: an alpha above 1, an alpha below 0,
\* an alpha that is no double exactly, and the midpoint of a Dimension
LerpCasesReached_Above ==
    last.op = "blend_lerp" /\ last.q = <<5, 2>> /\ last.color[1] # last.color[2]
LerpCasesReached_Below ==
    last.op = "blend_lerp" /\ last.q = <<-1, 4>> /\ last.color[1] # last.color[2]
LerpCasesReached_Third ==
    last.op = "blend_lerp" /\ last.q = <<1, 3>> /\ last.color[1] # last.color[2]
LerpCasesReached_Midpoint ==
    AskedAtMidpoint /\ LastDim.configs[2].real = 62 /\ IsOk(last.result)


-----------------------------------------------------------------------------
(* The configuration over time (Spec) *)

\* every ConfigPoint of the Dimension before is a ConfigPoint of the Dimension
\* after, with its determiner and its color, and a ready Dimension is ready
DimensionGrows(before, after) ==
    /\ \A k \in DOMAIN before.configs :
          \E n \in DOMAIN after.configs : after.configs[n] = before.configs[k]
    /\ before.ready => after.ready

\* C24: whatever call is made, failed ones included, every factory keeps its
\* Dimensions at their positions, every Dimension keeps its ConfigPoints with
\* their determiners and colors, and a ready Dimension stays ready; get_color
\* leaves the Dimensions (ConfigPoints and exponents) and the blend method of
\* its factory as they were
C24_ConfigurationGrows ==
    [][/\ \A f \in DOMAIN factories :
             /\ f \in DOMAIN factories'
             /\ \A i \in DOMAIN factories[f].dimensions :
                   /\ i \in DOMAIN factories'[f].dimensions
                   /\ DimensionGrows(factories[f].dimensions[i],
                                     factories'[f].dimensions[i])
       /\ last'.op = "get_color"
             => /\ factories'[last'.f].dimensions = factories[last'.f].dimensions
                /\ factories'[last'.f].blend_method = factories[last'.f].blend_method]_vars

\* a second ConfigPoint has been added below the first of a Dimension that
\* has a Dimension behind it
C24_Witness ==
    /\ last.op = "add_config"
    /\ IsOk(last.result)
    /\ last.i = 1
    /\ Len(Fac.dimensions) = 2
    /\ Len(LastDim.configs) = 2
    /\ last.q[1] = LastDim.configs[1].real
    /\ LastDim.ready

\* the other cases of C24: a call that failed on a ready Dimension, and a
\* get_color that answered
ConfigurationCasesReached_Failed ==
    /\ last.op = "add_config"
    /\ ~IsOk(last.result)
    /\ LastDim.ready
    /\ Len(LastDim.configs) = 2
ConfigurationCasesReached_GetColor ==
    /\ last.op = "get_color"
    /\ IsOk(last.result)
    /\ Len(Fac.dimensions) = 2


-----------------------------------------------------------------------------
(* The pairwise primitives and invert, each called once on drawn Colors *)

\* (a, a, a) for every channel value a, and a few Colors that are not gray
Grays == {<<a, a, a>> : a \in 0..255}
PrimitiveColors == Grays \cup LerpPalette
\* the Colors blend_lerp is called on: every pair of Channels meets in red
PrimitiveLerpColors == {<<a, b, 255 - a>> : a \in Channels, b \in {0, 255}}
PrimitiveAlphas == {<<-1, 1>>, <<0, 1>>, <<1, 3>>, <<1, 2>>, <<2, 3>>, <<1, 1>>, <<5, 2>>}
PairPrimitives ==
    {"_blend_additive", "_blend_subtractive", "_blend_difference",
     "_blend_multiply", "_blend_overlay"}

\* `last`: the primitive called, its Color arguments, alpha as <<n, d>> (or
\* <<>>), and the result
PrimitiveCall(op, primitive, colors, alpha, result) ==
    [op |-> op, primitive |-> primitive, colors |-> colors, alpha |-> alpha,
     result |-> result]

PrimitiveInit ==
    /\ factories = <<>>
    /\ cache = <<>>
    /\ \/ \E p \in PairPrimitives, b \in PrimitiveColors, c \in PrimitiveColors :
             last = PrimitiveCall("arguments", p, <<b, c>>, <<>>, Ok(None))
       \/ \E b \in PrimitiveLerpColors, c \in PrimitiveLerpColors, a \in PrimitiveAlphas :
             last = PrimitiveCall("arguments", "blend_lerp", <<b, c>>, a, Ok(None))
       \/ \E c \in PrimitiveColors :
             last = PrimitiveCall("arguments", "invert", <<c>>, <<>>, Ok(None))
    /\ pending = None

\* the call of the primitive on the arguments drawn, with its result
Called(primitive, result) ==
    /\ last.op = "arguments"
    /\ last.primitive = primitive
    /\ last' = [last EXCEPT !.op = "called", !.result = result]
    /\ UNCHANGED <<factories, cache, pending>>

PrimitiveLerp ==
    Called("blend_lerp",
           float_blend_lerp(last.colors[1], last.colors[2],
                            float_div_int(float_of_int(last.alpha[1]), last.alpha[2])))
PrimitiveAdditive ==
    Called("_blend_additive", blend_additive(last.colors[1], last.colors[2]))
PrimitiveSubtractive ==
    Called("_blend_subtractive", blend_subtractive(last.colors[1], last.colors[2]))
PrimitiveDifference ==
    Called("_blend_difference", blend_difference(last.colors[1], last.colors[2]))
PrimitiveMultiply ==
    Called("_blend_multiply", blend_multiply(last.colors[1], last.colors[2]))
PrimitiveOverlay ==
    Called("_blend_overlay", blend_overlay(last.colors[1], last.colors[2]))
PrimitiveInvert ==
    Called("invert", invert(last.colors[1]))

PrimitiveNext ==
    \/ PrimitiveLerp
    \/ PrimitiveAdditive
    \/ PrimitiveSubtractive
    \/ PrimitiveDifference
    \/ PrimitiveMultiply
    \/ PrimitiveOverlay
    \/ PrimitiveInvert

SpecPrimitive == PrimitiveInit /\ [][PrimitiveNext]_vars

\* the channel the spec gives for a primitive, where it gives one
SpecChannel(primitive, b, c) ==
    CASE primitive = "_blend_additive" -> IF b + c > 255 THEN 255 ELSE b + c
      [] primitive = "_blend_multiply" -> (b * c) \div 255
      [] primitive = "_blend_overlay" ->
            IF b <= 127 THEN (2 * b * c) \div 255
            ELSE 255 - ((2 * (255 - b) * (255 - c)) \div 255)
      [] primitive = "invert" -> 255 - b

\* C25: on Colors with channels in 0..255 every pairwise primitive (lerp with
\* any alpha, additive, subtractive, difference, multiplicative, overlay) and
\* invert return a Color, channels in 0..255; additive, multiplicative,
\* overlay and invert give per channel min(255, base + blend),
\* (base * blend) // 255, the overlay formula and 255 - c
C25_ChannelClosure ==
    last.op = "called" =>
        /\ IsOk(last.result)
        /\ IsRGB(last.result.val)
        /\ last.primitive \in {"_blend_additive", "_blend_multiply", "_blend_overlay",
                               "invert"}
              => \A k \in 1..3 :
                    last.result.val[k]
                      = SpecChannel(last.primitive, last.colors[1][k],
                                    last.colors[Len(last.colors)][k])

\* overlay of a base above 127 on a blend Color returned a Color
C25_Witness ==
    /\ last.op = "called"
    /\ last.primitive = "_blend_overlay"
    /\ last.colors = <<<<128, 128, 128>>, <<0, 0, 0>>>>
    /\ last.result = Ok(<<1, 1, 1>>)

\* the other cases of C25: additive at its cap, lerp with an alpha outside
\* [0, 1], invert
ClosureCasesReached_Additive ==
    /\ last.op = "called"
    /\ last.primitive = "_blend_additive"
    /\ last.colors = <<<<255, 255, 255>>, <<255, 255, 255>>>>
    /\ last.result = Ok(<<255, 255, 255>>)
ClosureCasesReached_Lerp ==
    /\ last.op = "called"
    /\ last.primitive = "blend_lerp"
    /\ last.alpha = <<5, 2>>
    /\ last.colors[1] # last.colors[2]
    /\ IsOk(last.result)
ClosureCasesReached_Invert ==
    /\ last.op = "called"
    /\ last.primitive = "invert"
    /\ last.colors = <<<<7, 200, 9>>>>
    /\ last.result = Ok(<<248, 55, 246>>)

\* lemma (SpecBlend): Color.blend of data_colors.py never fails with
\* InvalidColor on a list of Colors
BlendNeverInvalidColor ==
    (last.op = "Color.blend" /\ last.module = "data_colors")
    => last.result.err # "InvalidColor"

\* lemma (Spec): get_color never fails with InvalidColor
GetColorNeverInvalidColor ==
    last.op = "get_color" => last.result.err # "InvalidColor"


-----------------------------------------------------------------------------
(* Two factories, one lru_cache and one Dimension._current_value *)

TwoMaxDims == 1

\* Dimension._current_value: the number of Dimensions created so far. Every
\* Dimension SpecTwo creates is appended to a factory.
RECURSIVE current_value(_)
current_value(fs) ==
    IF fs = <<>> THEN 0 ELSE Len(Head(fs).dimensions) + current_value(Tail(fs))

\* Dimension.__new__ and __init__: the Dimension with its int value, the id
\* taken from the counter
Dimension_new(interpolation_exponent, id) ==
    [id |-> id] @@ Dimension(interpolation_exponent).val

TwoInit ==
    /\ factories = <<ColorFactory(LERP_BLEND), ColorFactory(LERP_BLEND)>>
    /\ cache = <<>>
    /\ last = Call("ColorFactory", 2, 0, <<>>, <<>>, Ok(None), FALSE, None)
    /\ pending = None

\* factories[f].add_dimension(e), e >= 0
TwoAddDimension(f, e) ==
    /\ Len(factories[f].dimensions) < TwoMaxDims
    /\ factories' = [factories EXCEPT
                       ![f].dimensions = Append(@, Dimension_new(e, current_value(factories)))]
    /\ last' = Call("add_dimension", f, 0, <<e>>, <<>>,
                    Ok(Some(Len(factories[f].dimensions) + 1)), FALSE, None)
    /\ UNCHANGED <<cache, pending>>

TwoNext ==
    \E f \in DOMAIN factories :
        \/ \E e \in Exponents : TwoAddDimension(f, e)
        \/ \E i \in DOMAIN factories[f].dimensions, dc \in ConfigInputs :
              AddConfigTo(f, i, dc[1], dc[2], MaxConfigs)
        \/ \E i \in DOMAIN factories[f].dimensions, e \in Exponents :
              SetExponent(f, i, e)
        \/ \E d \in QueryDeterminers : GetColor(f, <<d>>)

SpecTwo == TwoInit /\ [][TwoNext]_vars

\* the ids of the Dimensions of all factories, in order
RECURSIVE dimension_ids(_)
dimension_ids(fs) ==
    IF fs = <<>> THEN <<>>
    ELSE [i \in DOMAIN Head(fs).dimensions |-> Head(fs).dimensions[i].id]
         \o dimension_ids(Tail(fs))

\* C26: with two factories on the one cache and the one id counter, no two
\* Dimensions have the same id, every get_color that returns gives what
\* _cached_get_color computes for the current configuration of the factory
\* asked, and every cache entry of a factory whose fingerprint is up to date
\* holds what that factory computes for the entry's tuple
C26_FactoriesIndependent ==
    /\ \A m, n \in DOMAIN dimension_ids(factories) :
          dimension_ids(factories)[m] = dimension_ids(factories)[n] => m = n
    /\ (last.op = "get_color" /\ IsOk(last.result))
          => last.result = cached_get_color(Fac, last.q)
    /\ \A k \in DOMAIN cache :
          LET self == factories[cache[k].key[1]]
          IN self.config_hash = get_hash(self)
                => Ok(cache[k].value) = cached_get_color(self, cache[k].key[2])

\* the second factory answered from the cache a tuple for which the first
\* factory, configured otherwise, gives another Color
C26_Witness ==
    /\ last.op = "get_color"
    /\ last.f = 2
    /\ last.hit
    /\ IsOk(cached_get_color(factories[1], last.q))
    /\ cached_get_color(factories[1], last.q) # last.result
    /\ factories[1].config_hash = get_hash(factories[1])

\* the second factory computed its Color anew after a call on the first
\* factory had emptied the cache of the second's entry: the cache holds the
\* first factory's entry only, the second's fingerprint is up to date, and
\* the second is asked
IndependentCasesReached_Cleared ==
    /\ last.op = "get_color"
    /\ last.f = 2
    /\ ~last.hit
    /\ IsOk(last.result)
    /\ last.dropped = None
    /\ factories[1].config_hash = get_hash(factories[1])
    /\ ready(factories[1])


-----------------------------------------------------------------------------
(* The order of add_config (SpecDim) *)

\* every ordering of the elements of the sequence s
RECURSIVE Orderings(_)
Orderings(s) ==
    IF s = <<>> THEN {<<>>}
    ELSE UNION {{<<s[k]>> \o t : t \in Orderings(remove_at(s, k))} : k \in DOMAIN s}

\* d after add_config of each point of pts, in order
RECURSIVE add_configs(_, _)
add_configs(d, pts) ==
    IF pts = <<>> THEN d
    ELSE add_configs(add_config(d, Head(pts).real, Head(pts).color).self, Tail(pts))

\* C27: a Dimension is what add_config makes of its ConfigPoints in any
\* order: the same ConfigPoint sequence, min, max and range, the same
\* unload input and the same get_color for every determiner
C27_OrderInsensitive ==
    last.op \in {"add_config", "Dimension.get_color"} =>
        \A pts \in Orderings(LastDim.configs) :
            LET d == add_configs(Dimension(LastDim.interpolation_exponent).val, pts)
            IN /\ d.configs = LastDim.configs
               /\ d.min = LastDim.min /\ d.max = LastDim.max /\ d.range = LastDim.range
               /\ d.ready = LastDim.ready
               /\ unload_configs(d.configs) = unload_configs(LastDim.configs)
               /\ \A q \in DimQueries :
                     Dimension_get_color(d, q) = Dimension_get_color(LastDim, q)

\* the lowest of three ConfigPoints was added last
C27_Witness ==
    /\ last.op = "add_config"
    /\ IsOk(last.result)
    /\ Len(LastDim.configs) = 3
    /\ last.q[1] = LastDim.configs[1].real

=============================================================================
